---- MODULE Spec2Model ----
(***************************************************************************)
(* Vault indexing engine of yapper (crates/note-core): the in-memory index *)
(* store (index.rs) over the data model of model.rs, driven by ParsedNotes *)
(* of the shape the Markdown parser (parser.rs) emits.                     *)
(*                                                                         *)
(* Conventions.  Option<T> is a sequence of length <= 1: None == <<>>,     *)
(* Some(v) == <<v>>.  A HashMap is a function whose DOMAIN is the set of   *)
(* keys present.  A Vec is a sequence.  A String that the code inspects    *)
(* character by character (titles, descriptions, search text) is a         *)
(* sequence of one-character strings; identifiers and tags are atoms.      *)
(* A NaiveDate is a day number; a NaiveDateTime is [date, secs].           *)
(***************************************************************************)
EXTENDS Integers, Sequences, FiniteSets, TLC

VARIABLES
    data,       \* InMemoryIndexStore.data : VaultIndex
    parsedBy,   \* history: NoteId -> the ParsedNote most recently upserted, for indexed notes
    lastOp,     \* history: the last store call [kind, note, parsed]
    steps,      \* history: number of store calls made so far
    files,      \* the vault directory: path -> content of the file at that path
    ret,        \* what the last Domain or parser call returned (Option)
    iter,       \* the sequence in which data.notes iterates, once a Domain
                \* call has filled the index (a HashMap keeps it while unchanged)
    stdout,     \* the response lines the daemon has written, oldest first
    loop,       \* the request loop of the daemon: "none" (no daemon), "running",
                \* "returned Ok", "returned Err" or "panicked"
    model,      \* the Model of the terminal client (src/model.rs), as an Option
    page,       \* the Page of yap-tui (yap-tui/src/page.rs), as an Option
    stack       \* the calls of make_tree_item in progress, innermost last, and
                \* whether the thread ran out of stack

vars == <<data, parsedBy, lastOp, steps, files, ret, iter, stdout, loop, model, page, stack>>

\* the state of the terminal clients
client == <<model, page, stack>>

---------------------------------------------------------------------------
(* Bounds and input universes *)

\* Upper bound on the number of mutating store calls in one behaviour.
MaxSteps == 3

NoteIds == {"v/2025-03-15.md", "v/inbox.md"}
TaskIds == {"T-1", "T-2"}
TagOrder == <<"x", "y">>           \* the tags, in lexicographic order
Tags == {TagOrder[i] : i \in DOMAIN TagOrder}

None == <<>>
Some(v) == <<v>>

\* no terminal client has been started
NoClient ==
    /\ model = None
    /\ page = None
    /\ stack = [ frames |-> <<>>, overflow |-> FALSE ]

Range(s) == {s[i] : i \in DOMAIN s}

---------------------------------------------------------------------------
(* HashMap helpers *)

EmptyMap == [k \in {} |-> {}]

MapInsert(m, k, v) == [x \in (DOMAIN m) \cup {k} |-> IF x = k THEN v ELSE m[x]]

MapRemove(m, k) == [x \in (DOMAIN m) \ {k} |-> m[x]]

\* map.entry(k).or_default().push(v)
MapPush(m, k, v) ==
    IF k \in DOMAIN m THEN [m EXCEPT ![k] = Append(@, v)]
    ELSE MapInsert(m, k, <<v>>)

\* vec.retain(|id| id != x)
RetainNe(s, x) == SelectSeq(s, LAMBDA e : e # x)

---------------------------------------------------------------------------
(* model.rs *)

\* VaultIndex::default()
EmptyIndex ==
    [ notes                 |-> EmptyMap,
      note_content          |-> EmptyMap,
      tasks                 |-> EmptyMap,
      log_entries           |-> EmptyMap,
      mentions_by_task      |-> EmptyMap,
      tags_to_tasks         |-> EmptyMap,
      tags_to_log_entries   |-> EmptyMap,
      task_refs_by_task     |-> EmptyMap,
      note_to_task_ids      |-> EmptyMap,
      note_to_log_entry_ids |-> EmptyMap ]

\* TaskFilter::default()
DefaultFilter ==
    [ status |-> None, tags |-> <<>>, text_search |-> None, touched_since |-> None ]

---------------------------------------------------------------------------
(* index.rs: internal helpers *)

\* One pass of "if let Some(ids) = index.get_mut(key) { ids.retain(|x| x != id);
\* if ids.is_empty() { index.remove(key) } }" for each key of a Vec, in order.
RECURSIVE RetainAndPrune(_, _, _)
RetainAndPrune(index, keys, id) ==
    IF keys = <<>> THEN index
    ELSE LET key == Head(keys)
             next == IF key \in DOMAIN index
                     THEN LET ids == RetainNe(index[key], id)
                          IN  IF ids = <<>> THEN MapRemove(index, key)
                              ELSE [index EXCEPT ![key] = ids]
                     ELSE index
         IN  RetainAndPrune(next, Tail(keys), id)

\* "for key in keys { index.entry(key).or_default().push(id) }"
RECURSIVE PushUnderKeys(_, _, _)
PushUnderKeys(index, keys, id) ==
    IF keys = <<>> THEN index
    ELSE PushUnderKeys(MapPush(index, Head(keys), id), Tail(keys), id)

remove_task_internal(d, task_id) ==
    LET d1 == IF task_id \in DOMAIN d.tasks
              THEN [d EXCEPT
                      !.tasks = MapRemove(@, task_id),
                      !.tags_to_tasks = RetainAndPrune(@, d.tasks[task_id].tags, task_id)]
              ELSE d
    IN  [d1 EXCEPT
           !.mentions_by_task = MapRemove(@, task_id),
           !.task_refs_by_task = MapRemove(@, task_id)]

remove_log_entry_internal(d, entry_id) ==
    IF entry_id \in DOMAIN d.log_entries
    THEN LET entry == d.log_entries[entry_id]
         IN  [d EXCEPT
                !.log_entries = MapRemove(@, entry_id),
                !.tags_to_log_entries = RetainAndPrune(@, entry.tags, entry_id),
                !.task_refs_by_task = RetainAndPrune(@, entry.task_ids, entry_id)]
    ELSE d

\* "for id in ids { self.remove_task_internal(&id) }"
RECURSIVE RemoveTasks(_, _)
RemoveTasks(d, ids) ==
    IF ids = <<>> THEN d
    ELSE RemoveTasks(remove_task_internal(d, Head(ids)), Tail(ids))

\* "for id in ids { self.remove_log_entry_internal(&id) }"
RECURSIVE RemoveLogEntries(_, _)
RemoveLogEntries(d, ids) ==
    IF ids = <<>> THEN d
    ELSE RemoveLogEntries(remove_log_entry_internal(d, Head(ids)), Tail(ids))

\* RetainMentions with the predicate of retain inverted (== for !=)
RetainMentions_inverted(mentions_by_task, note_id) ==
    [t \in DOMAIN mentions_by_task |->
        SelectSeq(mentions_by_task[t], LAMBDA m : m.note_id = note_id)]

\* "mentions.retain(|mention| &mention.note_id != note_id)" on every bucket
RetainMentions(mentions_by_task, note_id) ==
    [t \in DOMAIN mentions_by_task |->
        SelectSeq(mentions_by_task[t], LAMBDA m : m.note_id # note_id)]

---------------------------------------------------------------------------
(* index.rs: IndexStore for InMemoryIndexStore, mutating calls *)

\* remove_note without the cascade to the note's log entries
remove_note_keeps_log_entries(d, note_id) ==
    LET d1 == [d EXCEPT
                 !.notes = MapRemove(@, note_id),
                 !.note_content = MapRemove(@, note_id)]
        d2 == IF note_id \in DOMAIN d1.note_to_task_ids
              THEN RemoveTasks(
                      [d1 EXCEPT !.note_to_task_ids = MapRemove(@, note_id)],
                      d1.note_to_task_ids[note_id])
              ELSE d1
    IN  [d2 EXCEPT !.mentions_by_task = RetainMentions(@, note_id)]

\* remove_note that forgets note_content.remove(note_id)
remove_note_keeps_content(d, note_id) ==
    LET d1 == [d EXCEPT !.notes = MapRemove(@, note_id)]
        d2 == IF note_id \in DOMAIN d1.note_to_task_ids
              THEN RemoveTasks(
                      [d1 EXCEPT !.note_to_task_ids = MapRemove(@, note_id)],
                      d1.note_to_task_ids[note_id])
              ELSE d1
        d3 == IF note_id \in DOMAIN d2.note_to_log_entry_ids
              THEN RemoveLogEntries(
                      [d2 EXCEPT !.note_to_log_entry_ids = MapRemove(@, note_id)],
                      d2.note_to_log_entry_ids[note_id])
              ELSE d2
    IN  [d3 EXCEPT !.mentions_by_task = RetainMentions(@, note_id)]

remove_note(d, note_id) ==
    LET d1 == [d EXCEPT
                 !.notes = MapRemove(@, note_id),
                 !.note_content = MapRemove(@, note_id)]
        d2 == IF note_id \in DOMAIN d1.note_to_task_ids
              THEN RemoveTasks(
                      [d1 EXCEPT !.note_to_task_ids = MapRemove(@, note_id)],
                      d1.note_to_task_ids[note_id])
              ELSE d1
        d3 == IF note_id \in DOMAIN d2.note_to_log_entry_ids
              THEN RemoveLogEntries(
                      [d2 EXCEPT !.note_to_log_entry_ids = MapRemove(@, note_id)],
                      d2.note_to_log_entry_ids[note_id])
              ELSE d2
    IN  [d3 EXCEPT !.mentions_by_task = RetainMentions(@, note_id)]

\* InsertTasks with tasks.entry(id).or_insert(task): an id already present is kept
RECURSIVE InsertTasks_or_insert(_, _)
InsertTasks_or_insert(d, tasks) ==
    IF tasks = <<>> THEN d
    ELSE LET task == Head(tasks)
         IN  InsertTasks_or_insert(
                [d EXCEPT
                   !.tags_to_tasks = PushUnderKeys(@, task.tags, task.id),
                   !.tasks = IF task.id \in DOMAIN @ THEN @ ELSE MapInsert(@, task.id, task)],
                Tail(tasks))

\* "for task in tasks { ... }" of upsert_parsed_note
RECURSIVE InsertTasks(_, _)
InsertTasks(d, tasks) ==
    IF tasks = <<>> THEN d
    ELSE LET task == Head(tasks)
         IN  InsertTasks(
                [d EXCEPT
                   !.tags_to_tasks = PushUnderKeys(@, task.tags, task.id),
                   !.tasks = MapInsert(@, task.id, task)],
                Tail(tasks))

\* "for entry in log_entries { ... }" of upsert_parsed_note
RECURSIVE InsertLogEntries(_, _)
InsertLogEntries(d, entries) ==
    IF entries = <<>> THEN d
    ELSE LET entry == Head(entries)
         IN  InsertLogEntries(
                [d EXCEPT
                   !.tags_to_log_entries = PushUnderKeys(@, entry.tags, entry.id),
                   !.task_refs_by_task = PushUnderKeys(@, entry.task_ids, entry.id),
                   !.log_entries = MapInsert(@, entry.id, entry)],
                Tail(entries))

\* "for mention in mentions { ... }" of upsert_parsed_note
RECURSIVE InsertMentions(_, _)
InsertMentions(mentions_by_task, mentions) ==
    IF mentions = <<>> THEN mentions_by_task
    ELSE InsertMentions(
            MapPush(mentions_by_task, Head(mentions).task_id, Head(mentions)),
            Tail(mentions))

NoteMetaOf(note) ==
    [ id |-> note.id, path |-> note.path, title |-> note.title, date |-> note.date ]

upsert_parsed_note(d, parsed) ==
    LET note_id == parsed.note.id
        d0 == remove_note(d, note_id)
        d1 == [d0 EXCEPT
                 !.notes = MapInsert(@, note_id, NoteMetaOf(parsed.note)),
                 !.note_content = MapInsert(@, note_id, parsed.note)]
        d2 == InsertTasks(d1, parsed.tasks)
        task_ids == [i \in DOMAIN parsed.tasks |-> parsed.tasks[i].id]
        d3 == IF task_ids # <<>>
              THEN [d2 EXCEPT !.note_to_task_ids = MapInsert(@, note_id, task_ids)]
              ELSE d2
        d4 == InsertLogEntries(d3, parsed.log_entries)
        log_entry_ids == [i \in DOMAIN parsed.log_entries |-> parsed.log_entries[i].id]
        d5 == IF log_entry_ids # <<>>
              THEN [d4 EXCEPT !.note_to_log_entry_ids = MapInsert(@, note_id, log_entry_ids)]
              ELSE d4
    IN  [d5 EXCEPT !.mentions_by_task = InsertMentions(@, parsed.mentions)]

---------------------------------------------------------------------------
(* index.rs: IndexStore for InMemoryIndexStore, queries *)

\* str::to_lowercase, on the letters the model uses
LowerChar(c) ==
    CASE c = "A" -> "a"
      [] c = "B" -> "b"
      [] OTHER   -> c

to_lowercase(str) == [i \in DOMAIN str |-> LowerChar(str[i])]

\* str::contains(&needle)
contains(hay, needle) ==
    \E i \in 0 .. (Len(hay) - Len(needle)) :
        SubSeq(hay, i + 1, i + Len(needle)) = needle

\* NaiveDateTime::date
date_of(datetime) == datetime.date

get_task(d, id) == IF id \in DOMAIN d.tasks THEN Some(d.tasks[id]) ELSE None

\* the four closures of the filter chain of list_tasks, in order
StatusFilter(task, filter) ==
    IF filter.status # None THEN task.status = filter.status[1] ELSE TRUE

\* TagsFilter with any() for all(): one requested tag is enough
TagsFilter_any(task, filter) ==
    IF filter.tags = <<>> THEN TRUE
    ELSE \E i \in DOMAIN filter.tags : filter.tags[i] \in Range(task.tags)

TagsFilter(task, filter) ==
    IF filter.tags = <<>> THEN TRUE
    ELSE \A i \in DOMAIN filter.tags : filter.tags[i] \in Range(task.tags)

SearchFilter(task, filter) ==
    IF filter.text_search # None
    THEN LET search == to_lowercase(filter.text_search[1])
         IN  \/ contains(to_lowercase(task.title), search)
             \/ IF task.description_md # None
                THEN contains(to_lowercase(task.description_md[1]), search)
                ELSE FALSE
    ELSE TRUE

TouchedFilter(task, filter) ==
    IF filter.touched_since # None
    THEN LET date == filter.touched_since[1]
         IN  \/ date_of(task.updated_at) >= date
             \/ IF task.closed_at # None
                THEN date_of(task.closed_at[1]) >= date
                ELSE FALSE
    ELSE TRUE

\* The Vec<Task> comes out in HashMap iteration order, one element per key of
\* the tasks table: its contents are this set (task records carry their id).
list_tasks(d, filter) ==
    { task \in {d.tasks[id] : id \in DOMAIN d.tasks} :
        /\ StatusFilter(task, filter)
        /\ TagsFilter(task, filter)
        /\ SearchFilter(task, filter)
        /\ TouchedFilter(task, filter) }

\* ids.iter().filter_map(|id| table.get(id)).cloned().collect()
Lookup(table, ids) ==
    LET live == SelectSeq(ids, LAMBDA id : id \in DOMAIN table)
    IN  [i \in DOMAIN live |-> table[live[i]]]

get_log_entries_for_task(d, id) ==
    IF id \in DOMAIN d.task_refs_by_task
    THEN Lookup(d.log_entries, d.task_refs_by_task[id])
    ELSE <<>>

get_mentions_for_task(d, id) ==
    IF id \in DOMAIN d.mentions_by_task THEN d.mentions_by_task[id] ELSE <<>>

\* list_notes_by_date with "date < range.end" for "date <= range.end"
list_notes_by_date_open_end(d, range) ==
    { meta \in {d.notes[id] : id \in DOMAIN d.notes} :
        IF meta.date # None
        THEN meta.date[1] >= range.start /\ meta.date[1] < range.end
        ELSE FALSE }

\* The NoteMeta entries list_notes_by_date keeps (the filter closure); the
\* returned Vec holds these, sorted by date.
list_notes_by_date(d, range) ==
    { meta \in {d.notes[id] : id \in DOMAIN d.notes} :
        IF meta.date # None
        THEN meta.date[1] >= range.start /\ meta.date[1] <= range.end
        ELSE FALSE }

\* One step of the stable sort: meta goes after the metas dated no later than it.
InsertByDate(sorted, meta) ==
    LET k == Cardinality({ i \in DOMAIN sorted : sorted[i].date[1] <= meta.date[1] })
    IN  SubSeq(sorted, 1, k) \o <<meta>> \o SubSeq(sorted, k + 1, Len(sorted))

\* notes.sort_by_key(|meta| meta.date), on metas that all have a date
RECURSIVE SortByDate(_)
SortByDate(v) ==
    IF v = <<>> THEN <<>>
    ELSE InsertByDate(SortByDate(SubSeq(v, 1, Len(v) - 1)), v[Len(v)])

\* The orders in which a HashMap may iterate over its keys
IterationOrders(map) ==
    { order \in [ 1 .. Cardinality(DOMAIN map) -> DOMAIN map ] :
        \A i, j \in DOMAIN order : i # j => order[i] # order[j] }

\* The Vec list_notes_by_date returns when notes.values() iterates in `order`
list_notes_by_date_vec(d, range, order) ==
    LET kept == SelectSeq(order, LAMBDA id : d.notes[id] \in list_notes_by_date(d, range))
    IN  SortByDate([ i \in DOMAIN kept |-> d.notes[kept[i]] ])

get_note(d, id) == IF id \in DOMAIN d.note_content THEN Some(d.note_content[id]) ELSE None

\* HashSet of the keys of both tag indices, collected and sorted
list_tags(d) ==
    LET tags == (DOMAIN d.tags_to_tasks) \cup (DOMAIN d.tags_to_log_entries)
    IN  SelectSeq(TagOrder, LAMBDA t : t \in tags)

items_for_tag(d, tag) ==
    [ tag |-> tag,
      tasks |-> IF tag \in DOMAIN d.tags_to_tasks
                THEN Lookup(d.tasks, d.tags_to_tasks[tag]) ELSE <<>>,
      log_entries |-> IF tag \in DOMAIN d.tags_to_log_entries
                      THEN Lookup(d.log_entries, d.tags_to_log_entries[tag]) ELSE <<>> ]

---------------------------------------------------------------------------
(* vault.rs / parser.rs: the ParsedNotes the store is fed *)

\* FileSystemVault::derive_title: the file stem
derive_title(path) ==
    CASE path = "v/2025-03-15.md" -> "2025-03-15"
      [] path = "v/inbox.md"      -> "inbox"
      [] path = "v/2025-03-14.md" -> "2025-03-14"
      [] path = "w/2025-03-15.md" -> "2025-03-15"
      [] path = "v/25-03-16.md"   -> "25-03-16"
      [] path = "v/2025-03-16.md" -> "2025-03-16"
      [] OTHER                    -> path

\* NaiveDate::parse_from_str(&name, "%y-%m-%d") alone, if it succeeds
derive_date_two_digit_year_only(path) ==
    CASE path = "v/25-03-16.md"   -> Some(4)
      [] OTHER                    -> None

\* FileSystemVault::derive_date: the stem read as a date (here a day number), if it is one
derive_date(path) ==
    CASE path = "v/2025-03-15.md" -> Some(3)
      [] path = "v/2025-03-14.md" -> Some(2)
      [] path = "w/2025-03-15.md" -> Some(3)
      [] path = "v/25-03-16.md"   -> Some(4)
      [] path = "v/2025-03-16.md" -> Some(4)
      [] OTHER                    -> None

\* FileSystemVault::read_note: id, title and date all come from the path
read_note(path, content) ==
    [ id |-> path, path |-> path, title |-> derive_title(path),
      date |-> derive_date(path), content |-> content ]

\* parser::build_task_from_caps, from a task line already split by TASK_LINE_RE
\* and split_title_and_tags into mark, id, title and tags
build_task_from_caps(note, line, now) ==
    LET status == IF line.mark \in {"x", "X"} THEN "Done" ELSE "Open"
    IN  [ id |-> line.id,
          title |-> line.title,
          status |-> status,
          created_at |-> now,
          updated_at |-> now,
          closed_at |-> IF status = "Done" THEN Some(now) ELSE None,
          tags |-> line.tags,
          description_md |-> None,
          source_note_id |-> Some(note.id) ]

\* LogEntryId(format!("{}:{}", note.id.0, line_number))
LogEntryIdOf(note_id, line_number) == <<note_id, line_number>>

\* parser::parse_log_line, from a log line already split into time, body
\* without tags, tags, the task-id tokens of its combined body and the excerpt
\* of that combined body: the entry and one mention per token
parse_log_line(note, line, line_number) ==
    LET entry_id == LogEntryIdOf(note.id, line_number)
    IN  [ entry |->
            [ id |-> entry_id,
              note_id |-> note.id,
              line_number |-> line_number,
              timestamp |-> line.time,
              content_md |-> line.body,
              tags |-> line.tags,
              task_ids |-> line.refs ],
          mentions |->
            [ i \in DOMAIN line.refs |->
                [ task_id |-> line.refs[i],
                  note_id |-> note.id,
                  log_entry_id |-> Some(entry_id),
                  excerpt |-> line.excerpt ] ] ]

RECURSIVE Concat(_)
Concat(seqs) == IF seqs = <<>> THEN <<>> ELSE Head(seqs) \o Concat(Tail(seqs))

\* parser::parse_note_internal on a note whose text is "## Tasks", the task
\* lines, "## Log", the log lines: line numbers are counted from 1.
parse_note_internal(note, now) ==
    LET body == note.content
        n == Len(body.tasks)
        logs == [ k \in DOMAIN body.logs |-> parse_log_line(note, body.logs[k], n + 2 + k) ]
    IN  [ note |-> note,
          tasks |-> [ i \in DOMAIN body.tasks |-> build_task_from_caps(note, body.tasks[i], now) ],
          log_entries |-> [ k \in DOMAIN logs |-> logs[k].entry ],
          mentions |-> Concat([ k \in DOMAIN logs |-> logs[k].mentions ]) ]

\* Task lines of a Tasks section.  Two lines reuse the id T-1 with different
\* tags; one line repeats a tag.
TaskLinePool ==
    { [ id |-> "T-1", mark |-> " ", title |-> <<"A", "b">>, tags |-> <<"x">> ],
      [ id |-> "T-1", mark |-> "x", title |-> <<"b">>,      tags |-> <<>> ],
      [ id |-> "T-2", mark |-> " ", title |-> <<"a">>,      tags |-> <<"y", "y">> ] }

\* List items of a Log section.  One mentions T-1, one mentions T-2 twice and
\* carries a tag.
LogLinePool ==
    { [ time |-> None, body |-> "did [T-1]", tags |-> <<>>, refs |-> <<"T-1">>,
        excerpt |-> "did [T-1]" ],
      [ time |-> Some("09:10"), body |-> "met [T-2] and [T-2]", tags |-> <<"x">>,
        refs |-> <<"T-2", "T-2">>, excerpt |-> "met [T-2] and [T-2] #x" ] }

\* Note bodies: at most two item lines in all.
Bodies ==
    LET T == TaskLinePool
        L == LogLinePool
    IN       { [ tasks |-> <<>>, logs |-> <<>> ] }
        \cup { [ tasks |-> <<a>>, logs |-> <<>> ] : a \in T }
        \cup { [ tasks |-> <<a, b>>, logs |-> <<>> ] : a \in T, b \in T }
        \cup { [ tasks |-> <<>>, logs |-> <<l>> ] : l \in L }
        \cup { [ tasks |-> <<>>, logs |-> <<l, m>> ] : l \in L, m \in L }
        \cup { [ tasks |-> <<a>>, logs |-> <<l>> ] : a \in T, l \in L }

\* Utc::now().naive_utc() at parse time
ParseTimes == { [ date |-> 3, secs |-> 600 ] }

\* Every ParsedNote the parser hands to the store for these notes
ParserInputs ==
    { parse_note_internal(read_note(path, body), now) :
        path \in NoteIds, body \in Bodies, now \in ParseTimes }

---------------------------------------------------------------------------
(* The parser on note text.  A text is a sequence of characters; a character
   is a one-character string, or the name of a multi-byte character. *)

\* const MAX_EXCERPT: usize = 120
MAX_EXCERPT == 120

\* char::len_utf8 of the characters used here
len_utf8(c) ==
    CASE c \in { "U+00E9", "U+00E2", "U+00A6" } -> 2
      [] c \in { "U+20AC", "U+2026" }           -> 3
      [] OTHER                                  -> 1

\* str::len: the length in bytes (summed by halves)
RECURSIVE str_len(_)
str_len(str) ==
    IF str = <<>> THEN 0
    ELSE IF Len(str) = 1 THEN len_utf8(str[1])
    ELSE LET half == Len(str) \div 2
         IN  str_len(SubSeq(str, 1, half)) + str_len(SubSeq(str, half + 1, Len(str)))

\* The literal excerpt.push_str appends
ELLIPSIS == << "U+00E2", "U+20AC", "U+00A6" >>

\* char::is_whitespace / the regex class \s
White == { " ", "\t", "\n", "\r" }

Digits == { "0", "1", "2", "3", "4", "5", "6", "7", "8", "9" }

UpperLetters ==
    << "A", "B", "C", "D", "E", "F", "G", "H", "I", "J", "K", "L", "M",
       "N", "O", "P", "Q", "R", "S", "T", "U", "V", "W", "X", "Y", "Z" >>

LowerLetters ==
    << "a", "b", "c", "d", "e", "f", "g", "h", "i", "j", "k", "l", "m",
       "n", "o", "p", "q", "r", "s", "t", "u", "v", "w", "x", "y", "z" >>

\* The regex class [0-9A-Za-z_-]
IdChars == Digits \cup Range(UpperLetters) \cup Range(LowerLetters) \cup { "_", "-" }

\* u8::to_ascii_lowercase on one character
to_ascii_lowercase(c) ==
    IF c \in Range(UpperLetters)
    THEN LowerLetters[CHOOSE i \in DOMAIN UpperLetters : UpperLetters[i] = c]
    ELSE c

\* str::eq_ignore_ascii_case
eq_ignore_ascii_case(a, b) ==
    /\ Len(a) = Len(b)
    /\ \A i \in DOMAIN a : to_ascii_lowercase(a[i]) = to_ascii_lowercase(b[i])

\* The character at position p, "" past the end
At(str, p) == IF p \in DOMAIN str THEN str[p] ELSE ""

\* The first position from p on whose character is not in the class (greedy class*)
SkipIn(str, p, class) ==
    IF p > Len(str) THEN p
    ELSE CHOOSE q \in p .. Len(str) + 1 :
            /\ At(str, q) \notin class
            /\ \A r \in p .. q - 1 : str[r] \in class

SkipWs(str, p) == SkipIn(str, p, White)

\* str::trim_start
trim_start(str) == SubSeq(str, SkipWs(str, 1), Len(str))

\* str::trim_end
trim_end(str) ==
    IF \A i \in DOMAIN str : str[i] \in White THEN <<>>
    ELSE SubSeq(str, 1, CHOOSE i \in DOMAIN str :
                            /\ str[i] \notin White
                            /\ \A j \in i + 1 .. Len(str) : str[j] \in White)

\* str::trim
trim(str) == trim_start(trim_end(str))

\* str::starts_with
starts_with(str, prefix) ==
    /\ Len(prefix) <= Len(str)
    /\ SubSeq(str, 1, Len(prefix)) = prefix

\* str::strip_prefix: Some(rest) or None
strip_prefix(str, prefix) ==
    IF starts_with(str, prefix)
    THEN Some(SubSeq(str, Len(prefix) + 1, Len(str)))
    ELSE None

\* str::trim_start_matches: the prefix removed as many times as it repeats
RECURSIVE trim_start_matches(_, _)
trim_start_matches(str, prefix) ==
    IF starts_with(str, prefix)
    THEN trim_start_matches(SubSeq(str, Len(prefix) + 1, Len(str)), prefix)
    ELSE str

\* str::lines: split at "\n", a trailing "\r" of a line dropped, no empty
\* last line after a final "\n"
RECURSIVE lines(_)
lines(text) ==
    IF text = <<>> THEN <<>>
    ELSE LET p  == SkipIn(text, 1, { c \in Range(text) : c # "\n" })
             l  == SubSeq(text, 1, p - 1)
             l2 == IF l # <<>> /\ l[Len(l)] = "\r" THEN SubSeq(l, 1, Len(l) - 1) ELSE l
         IN  <<l2>> \o lines(SubSeq(text, p + 1, Len(text)))

\* str::split_whitespace
RECURSIVE split_whitespace(_)
split_whitespace(str) ==
    LET p == SkipWs(str, 1)
    IN  IF p > Len(str) THEN <<>>
        ELSE LET q == SkipIn(str, p, { c \in Range(str) : c \notin White })
             IN  <<SubSeq(str, p, q - 1)>> \o split_whitespace(SubSeq(str, q, Len(str)))

\* [&str]::join(" ")
RECURSIVE join(_)
join(parts) ==
    IF parts = <<>> THEN <<>>
    ELSE IF Len(parts) = 1 THEN parts[1]
    ELSE parts[1] \o <<" ">> \o join(Tail(parts))

\* split_title_and_tags without the fallback to the trimmed input
split_title_and_tags_no_fallback(input) ==
    LET parts == split_whitespace(input)
        IsTag(part) == part[1] = "#" /\ Len(part) > 1
        tag_parts == SelectSeq(parts, IsTag)
    IN  [ title |-> join(SelectSeq(parts, LAMBDA part : ~IsTag(part))),
          tags  |-> [ i \in DOMAIN tag_parts |-> Tail(tag_parts[i]) ] ]

\* parser::split_title_and_tags
split_title_and_tags(input) ==
    LET parts == split_whitespace(input)
        IsTag(part) == part[1] = "#" /\ Len(part) > 1
        title_parts == SelectSeq(parts, LAMBDA part : ~IsTag(part))
        tag_parts == SelectSeq(parts, IsTag)
    IN  [ title |-> IF title_parts = <<>> THEN trim(input) ELSE join(title_parts),
          tags  |-> [ i \in DOMAIN tag_parts |-> Tail(tag_parts[i]) ] ]

\* TASK_LINE_RE with the alternatives of its mark group given as a set:
\* ^\s*-\s*\[(mark)\]\s+\[(T-[0-9A-Za-z_-]+)\]\s*(.*)$
TaskLineCaptures(str, marks) ==
    LET p1 == SkipWs(str, 1)
        p2 == SkipWs(str, p1 + 1)
        p3 == SkipWs(str, p2 + 3)
        p4 == SkipIn(str, p3 + 3, IdChars)
        matched ==
            /\ At(str, p1) = "-"
            /\ At(str, p2) = "["
            /\ At(str, p2 + 1) \in marks
            /\ At(str, p2 + 2) = "]"
            /\ At(str, p2 + 3) \in White
            /\ At(str, p3) = "["
            /\ At(str, p3 + 1) = "T"
            /\ At(str, p3 + 2) = "-"
            /\ At(str, p3 + 3) \in IdChars
            /\ At(str, p4) = "]"
    IN  IF matched
        THEN Some([ mark |-> str[p2 + 1],
                    id   |-> SubSeq(str, p3 + 1, p4 - 1),
                    rest |-> SubSeq(str, SkipWs(str, p4 + 1), Len(str)) ])
        ELSE None

\* TASK_LINE_RE.captures: the mark group is ( |x)
TASK_LINE_RE(str) == TaskLineCaptures(str, { " ", "x" })

\* TIME_PREFIX_RE.captures:
\* ^\s*-\s*([0-9]{1,2}:[0-9]{2}(?:\s?(?:am|pm|AM|PM))?)\s+(.*)$
TIME_PREFIX_RE(str) ==
    LET p1 == SkipWs(str, 1)
        p2 == SkipWs(str, p1 + 1)
        p3 == SkipIn(str, p2, Digits)
        p4 == p3 + 3
        q  == IF At(str, p4) \in White THEN p4 + 1 ELSE p4
        clock ==
            /\ At(str, p1) = "-"
            /\ p3 - p2 \in { 1, 2 }
            /\ At(str, p3) = ":"
            /\ At(str, p3 + 1) \in Digits
            /\ At(str, p3 + 2) \in Digits
        meridiem ==
            /\ << At(str, q), At(str, q + 1) >> \in
                  { <<"a", "m">>, <<"p", "m">>, <<"A", "M">>, <<"P", "M">> }
            /\ At(str, q + 2) \in White
        e == IF meridiem THEN q + 2 ELSE p4
    IN  IF clock /\ At(str, e) \in White
        THEN Some([ time |-> SubSeq(str, p2, e - 1),
                    rest |-> SubSeq(str, SkipWs(str, e), Len(str)) ])
        ELSE None

\* LOG_TASK_REF_RE matches at position p: \[(T-[0-9A-Za-z_-]+)\]
LogTaskRefAt(str, p) ==
    /\ str[p] = "["
    /\ At(str, p + 1) = "T"
    /\ At(str, p + 2) = "-"
    /\ At(str, p + 3) \in IdChars
    /\ At(str, SkipIn(str, p + 3, IdChars)) = "]"

\* LOG_TASK_REF_RE.captures_iter from position p on, group 1 of every match,
\* leftmost first and non-overlapping
RECURSIVE captures_iter_from(_, _)
captures_iter_from(str, p) ==
    IF \A o \in p .. Len(str) : ~LogTaskRefAt(str, o) THEN <<>>
    ELSE LET o == CHOOSE o \in p .. Len(str) :
                      LogTaskRefAt(str, o) /\ \A n \in p .. o - 1 : ~LogTaskRefAt(str, n)
             q == SkipIn(str, o + 3, IdChars)
         IN  <<SubSeq(str, o + 1, q - 1)>> \o captures_iter_from(str, q + 1)

\* Only the first match: what captures (not captures_iter) would give
captures_first_only(str) ==
    LET all == captures_iter_from(str, 1)
    IN  IF all = <<>> THEN <<>> ELSE <<all[1]>>

\* LOG_TASK_REF_RE.captures_iter(&combined)
captures_iter(str) == captures_iter_from(str, 1)

\* parser::combine_with_continuation
RECURSIVE combine_with_continuation(_, _)
combine_with_continuation(base, continuation) ==
    IF continuation = <<>> THEN trim(base)
    ELSE LET combined == combine_with_continuation(
                             base, SubSeq(continuation, 1, Len(continuation) - 1))
             extra == trim(continuation[Len(continuation)])
         IN  IF combined # <<>> THEN combined \o <<"\n">> \o extra ELSE extra

\* the test of collect_continuation without its stop at a new list item
IsContinuation_folds_items(next_line) ==
    /\ ~starts_with(trim_start(next_line), << "#", "#", " " >>)
    /\ trim(next_line) # <<>>
    /\ At(next_line, 1) \in { " ", "\t" }

\* The test of collect_continuation on the peeked line
IsContinuation(next_line) ==
    /\ ~starts_with(trim_start(next_line), << "#", "#", " " >>)
    /\ ~starts_with(trim_start(next_line), << "-", " " >>)
    /\ trim(next_line) # <<>>
    /\ At(next_line, 1) \in { " ", "\t" }

\* parser::collect_continuation with the iterator standing before line i of
\* all: the lines it takes, trimmed
RECURSIVE ContinuationCount(_, _)
ContinuationCount(all, i) ==
    IF i <= Len(all) /\ IsContinuation(all[i])
    THEN 1 + ContinuationCount(all, i + 1)
    ELSE 0

collect_continuation(all, i) ==
    [ k \in 1 .. ContinuationCount(all, i) |-> trim(all[i + k - 1]) ]

\* The characters wholly inside str[..n]: the length of the longest prefix of
\* at most n bytes (found by halves)
RECURSIVE CharsWithin(_, _)
CharsWithin(str, n) ==
    IF str = <<>> THEN 0
    ELSE IF Len(str) = 1 THEN (IF len_utf8(str[1]) <= n THEN 1 ELSE 0)
    ELSE LET half == Len(str) \div 2
             left == SubSeq(str, 1, half)
         IN  IF str_len(left) <= n
             THEN half + CharsWithin(SubSeq(str, half + 1, Len(str)), n - str_len(left))
             ELSE CharsWithin(left, n)

\* parser::build_excerpt.  content[..MAX_EXCERPT] panics when byte MAX_EXCERPT
\* is not a character boundary.
build_excerpt(content) ==
    IF str_len(content) <= MAX_EXCERPT
    THEN [ panic |-> FALSE, value |-> content ]
    ELSE LET k == CharsWithin(content, MAX_EXCERPT)
         IN  IF str_len(SubSeq(content, 1, k)) = MAX_EXCERPT
             THEN [ panic |-> FALSE, value |-> SubSeq(content, 1, k) \o ELLIPSIS ]
             ELSE [ panic |-> TRUE, value |-> <<>> ]

\* parse_log_line from combined on: the pieces of the item, its combined
\* body and whether build_excerpt panicked (it is called once per task-id token)
LogLineFields(time, combined) ==
    LET split == split_title_and_tags(combined)
        refs == captures_iter(combined)
        excerpt == build_excerpt(combined)
    IN  Some([ time |-> time,
               body |-> split.title,
               tags |-> split.tags,
               refs |-> refs,
               excerpt |-> excerpt.value,
               combined |-> combined,
               panic |-> refs # <<>> /\ excerpt.panic ])

\* The pair (timestamp, remainder_line) of parse_log_line, from the captures
\* of TIME_PREFIX_RE
TimestampOf(caps) == IF caps # None THEN Some(caps[1].time) ELSE None

RemainderLine(caps, line) ==
    IF caps # None THEN trim(caps[1].rest)
    ELSE trim(trim_start_matches(line, << "-", " " >>))

LogLineWithTime(caps, line, continuation) ==
    LogLineFields(TimestampOf(caps),
                  combine_with_continuation(RemainderLine(caps, line), continuation))

\* parser::parse_log_line up to the construction of the entry: None for a line
\* that is no list item
LogLineCaptures(line, continuation) ==
    IF ~starts_with(trim_start(line), << "-", " " >>) THEN None
    ELSE LogLineWithTime(TIME_PREFIX_RE(line), line, continuation)

\* the heading match of parse_note_internal comparing the name as written
SectionOf_case_sensitive(stripped) ==
    LET heading == trim(stripped)
    IN  IF heading = << "t", "a", "s", "k", "s" >> THEN "Tasks"
        ELSE IF heading = << "l", "o", "g" >> THEN "Log"
        ELSE "Other"

\* The section a heading line switches to
SectionOf(stripped) ==
    LET heading == trim(stripped)
    IN  IF eq_ignore_ascii_case(heading, << "t", "a", "s", "k", "s" >>) THEN "Tasks"
        ELSE IF eq_ignore_ascii_case(heading, << "l", "o", "g" >>) THEN "Log"
        ELSE "Other"

\* The Section::Tasks arm on line i: caps are the captures of TASK_LINE_RE.
\* The result is the state of the loop and the next line it reads.
TaskOf(note, caps, split, now) ==
    build_task_from_caps(note, [ id |-> caps.id, mark |-> caps.mark,
                                 title |-> split.title, tags |-> split.tags ], now)

TasksArm(note, now, i, st, caps, continuation) ==
    IF caps = None THEN [ next |-> i + 1, st |-> st ]
    ELSE [ next |-> i + 1 + Len(continuation),
           st |-> [ st EXCEPT !.tasks =
                      Append(@, TaskOf(note, caps[1],
                                   split_title_and_tags(
                                       combine_with_continuation(trim(caps[1].rest),
                                                                 continuation)),
                                   now)) ] ]

\* The Section::Log arm on line i: caps is what parse_log_line made of the line
PushEntry(st, r, combined) ==
    [ st EXCEPT !.log_entries = Append(@, r.entry),
                !.mentions = @ \o r.mentions,
                !.combined = Append(@, combined) ]

LogArm(note, i, st, caps, continuation) ==
    IF caps = None THEN [ next |-> i + 1, st |-> st ]
    ELSE IF caps[1].panic THEN [ next |-> i, st |-> [ st EXCEPT !.panic = TRUE ] ]
    ELSE [ next |-> i + 1 + Len(continuation),
           st |-> PushEntry(st, parse_log_line(note, caps[1], i), caps[1].combined) ]

\* One turn of the loop of parser::parse_note_internal, on line i; trimmed is
\* the line trimmed at both ends
ParseLine(note, now, all, i, st, trimmed, continuation) ==
    IF strip_prefix(trimmed, << "#", "#", " " >>) # None
    THEN [ next |-> i + 1,
           st |-> [ st EXCEPT !.current_section =
                      SectionOf(strip_prefix(trimmed, << "#", "#", " " >>)[1]) ] ]
    ELSE IF st.current_section = "Tasks"
    THEN TasksArm(note, now, i, st, TASK_LINE_RE(trimmed), continuation)
    ELSE IF st.current_section = "Log"
    THEN LogArm(note, i, st, LogLineCaptures(all[i], continuation), continuation)
    ELSE [ next |-> i + 1, st |-> st ]

\* The loop of parser::parse_note_internal from line i on.  st holds
\* current_section, the three vectors, whether the call has panicked, and (for
\* the claims) the combined body of every entry pushed.
RECURSIVE ParseLines(_, _, _, _, _)
ParseNext(note, now, all, turn) == ParseLines(note, now, all, turn.next, turn.st)

ParseLines(note, now, all, i, st) ==
    IF i > Len(all) \/ st.panic THEN st
    ELSE ParseNext(note, now, all,
                   ParseLine(note, now, all, i, st, trim_start(trim_end(all[i])),
                             collect_continuation(all, i + 1)))

\* NoteParser::parse on a note whose content is text: the ParsedNote, or a
\* panic; combined lists the combined body of each log entry, in order
parse(note, now) ==
    LET st == ParseLines(note, now, lines(note.content), 1,
                  [ current_section |-> "Other", tasks |-> <<>>, log_entries |-> <<>>,
                    mentions |-> <<>>, combined |-> <<>>, panic |-> FALSE ])
    IN  [ panic |-> st.panic,
          parsed |-> IF st.panic THEN None
                     ELSE Some([ note |-> note, tasks |-> st.tasks,
                                 log_entries |-> st.log_entries, mentions |-> st.mentions ]),
          combined |-> st.combined ]

---------------------------------------------------------------------------
(* The store under upsert_parsed_note / remove_note calls *)

Init ==
    /\ data = EmptyIndex
    /\ parsedBy = EmptyMap
    /\ lastOp = [ kind |-> "new", note |-> "", parsed |-> None ]
    /\ steps = 0
    /\ files = EmptyMap
    /\ ret = None
    /\ iter = <<>>
    /\ stdout = <<>>
    /\ loop = "none"
    /\ NoClient

UpsertParsedNote(parsed) ==
    /\ steps < MaxSteps
    /\ data' = upsert_parsed_note(data, parsed)
    /\ parsedBy' = MapInsert(parsedBy, parsed.note.id, parsed)
    /\ lastOp' = [ kind |-> "upsert", note |-> parsed.note.id, parsed |-> Some(parsed) ]
    /\ steps' = steps + 1
    /\ UNCHANGED <<client, files, ret, iter, stdout, loop>>

Upsert == \E parsed \in ParserInputs : UpsertParsedNote(parsed)

Remove ==
    \E note_id \in NoteIds :
        /\ steps < MaxSteps
        /\ data' = remove_note(data, note_id)
        /\ parsedBy' = MapRemove(parsedBy, note_id)
        /\ lastOp' = [ kind |-> "remove", note |-> note_id,
                       parsed |-> IF note_id \in DOMAIN parsedBy
                                  THEN Some(parsedBy[note_id]) ELSE None ]
        /\ steps' = steps + 1
        /\ UNCHANGED <<client, files, ret, iter, stdout, loop>>

Next == Upsert \/ Remove

Spec == Init /\ [][Next]_vars

---------------------------------------------------------------------------
(* What a client can observe of a store: the answer of every query *)

DateRanges == { [ start |-> a, end |-> b ] : a \in 2 .. 4, b \in 2 .. 4 }

\* Every query answer, with each Vec in the order the code builds it.
Answers(d) ==
    [ get_task      |-> [ t \in TaskIds |-> get_task(d, t) ],
      list_tasks    |-> list_tasks(d, DefaultFilter),
      log_entries   |-> [ t \in TaskIds |-> get_log_entries_for_task(d, t) ],
      mentions      |-> [ t \in TaskIds |-> get_mentions_for_task(d, t) ],
      notes_by_date |-> [ r \in DateRanges |-> list_notes_by_date(d, r) ],
      get_note      |-> [ n \in NoteIds |-> get_note(d, n) ],
      list_tags     |-> list_tags(d),
      items_for_tag |-> [ tag \in Tags |-> items_for_tag(d, tag) ] ]

\* A Vec as a multiset: element -> number of occurrences
BagOf(s) == [ e \in Range(s) |-> Cardinality({ i \in DOMAIN s : s[i] = e }) ]

\* Every query answer, with each Vec taken as a multiset.
AnswersAsBags(d) ==
    [ get_task      |-> [ t \in TaskIds |-> get_task(d, t) ],
      list_tasks    |-> list_tasks(d, DefaultFilter),
      log_entries   |-> [ t \in TaskIds |-> BagOf(get_log_entries_for_task(d, t)) ],
      mentions      |-> [ t \in TaskIds |-> BagOf(get_mentions_for_task(d, t)) ],
      notes_by_date |-> [ r \in DateRanges |-> list_notes_by_date(d, r) ],
      get_note      |-> [ n \in NoteIds |-> get_note(d, n) ],
      list_tags     |-> BagOf(list_tags(d)),
      items_for_tag |-> [ tag \in Tags |->
                            [ tasks       |-> BagOf(items_for_tag(d, tag).tasks),
                              log_entries |-> BagOf(items_for_tag(d, tag).log_entries) ] ] ]

Indexed(d) == DOMAIN d.note_content

IndexedTasks(d) == { d.tasks[id] : id \in DOMAIN d.tasks }

IndexedLogEntries(d) == { d.log_entries[id] : id \in DOMAIN d.log_entries }

---------------------------------------------------------------------------
(* Claims *)

\* C1: round trip.  From the empty store, upsert_parsed_note(P) followed by
\* remove_note(P.note.id) leaves a store that answers as the empty store does:
\* no tags, no tasks, nothing under any tag, no mentions and no log entries
\* for any task id, and no note.  (With steps = 2 and a remove that found the
\* note indexed, the first call was the upsert of that note into the empty store.)
C1_RoundTripEmpty ==
    (steps = 2 /\ lastOp.kind = "remove" /\ lastOp.parsed # None) =>
        /\ list_tags(data) = <<>>
        /\ list_tasks(data, DefaultFilter) = {}
        /\ \A tag \in Tags :
              /\ items_for_tag(data, tag).tasks = <<>>
              /\ items_for_tag(data, tag).log_entries = <<>>
        /\ \A t \in TaskIds :
              /\ get_mentions_for_task(data, t) = <<>>
              /\ get_log_entries_for_task(data, t) = <<>>
        /\ get_note(data, lastOp.note) = None

\* C2: idempotence of upsert.  In every state reached by an upsert of P,
\* upserting the same P once more leaves every query answer the same, as multisets.
C2_UpsertIdempotent ==
    lastOp.kind = "upsert" =>
        AnswersAsBags(upsert_parsed_note(data, lastOp.parsed[1])) = AnswersAsBags(data)

\* C3: tag-bucket invariant.  Every tag list_tags() returns is carried by at
\* least one indexed task or one indexed log entry.
C3_TagsHaveLiveMember ==
    \A i \in DOMAIN list_tags(data) :
        LET tag == list_tags(data)[i]
        IN  \/ \E task \in IndexedTasks(data) : tag \in Range(task.tags)
            \/ \E entry \in IndexedLogEntries(data) : tag \in Range(entry.tags)

\* C4: mention reachability.  For every indexed note N and every mention m of
\* the ParsedNote last upserted for N, m is in get_mentions_for_task(m.task_id).
C4_MentionsReachable ==
    \A n \in Indexed(data) :
        \A i \in DOMAIN parsedBy[n].mentions :
            LET m == parsedBy[n].mentions[i]
            IN  m \in Range(get_mentions_for_task(data, m.task_id))

\* C5: a note keeps its derived tasks while it is indexed.  For every indexed
\* note N and every task of the ParsedNote last upserted for N, get_task of
\* that task's id returns a task.
C5_IndexedNoteKeepsTasks ==
    \A n \in Indexed(data) :
        \A i \in DOMAIN parsedBy[n].tasks :
            get_task(data, parsedBy[n].tasks[i].id) # None

\* C6: removal cascade.  Right after remove_note(N): get_note(N) is None, N
\* is in no list_notes_by_date answer, list_tasks returns no task whose
\* source_note_id is N, neither items_for_tag nor get_log_entries_for_task
\* returns a log entry of N, and no mention bucket holds a mention of N.
C6_RemovalCascade ==
    lastOp.kind = "remove" =>
        LET n == lastOp.note
        IN  /\ get_note(data, n) = None
            /\ \A r \in DateRanges : \A meta \in list_notes_by_date(data, r) : meta.id # n
            /\ \A task \in list_tasks(data, DefaultFilter) : task.source_note_id # Some(n)
            /\ \A tag \in Tags :
                  \A entry \in Range(items_for_tag(data, tag).log_entries) : entry.note_id # n
            /\ \A t \in TaskIds :
                  /\ \A entry \in Range(get_log_entries_for_task(data, t)) : entry.note_id # n
                  /\ \A m \in Range(get_mentions_for_task(data, t)) : m.note_id # n

\* A removal of a note that had a task, a log entry and a mention, while the
\* other note stays indexed with a log entry of its own.
C6_Witness ==
    /\ lastOp.kind = "remove"
    /\ lastOp.parsed # None
    /\ lastOp.parsed[1].tasks # <<>>
    /\ lastOp.parsed[1].log_entries # <<>>
    /\ lastOp.parsed[1].mentions # <<>>
    /\ Indexed(data) # {}
    /\ IndexedLogEntries(data) # {}

\* C7: remove_note(id) of a note id that is not indexed is a no-op: every
\* query answers exactly what it answered before the call.
C7_RemoveUnknownIsNoOp ==
    [][ (lastOp'.kind = "remove" /\ get_note(data, lastOp'.note) = None)
            => Answers(data') = Answers(data) ]_vars

\* A removal of a note id that was not indexed, in a store that holds a note
\* with a task and a mention.
C7_Witness ==
    /\ lastOp.kind = "remove"
    /\ lastOp.parsed = None
    /\ Indexed(data) # {}
    /\ IndexedTasks(data) # {}
    /\ \E t \in TaskIds : get_mentions_for_task(data, t) # <<>>

\* C8: content/meta pairing.  get_note(id) is Some exactly when the notes
\* table has a NoteMeta for id, and then both agree on id, path, title, date.
C8_ContentMetaPaired ==
    \A id \in NoteIds :
        /\ (get_note(data, id) # None) <=> (id \in DOMAIN data.notes)
        /\ (get_note(data, id) # None /\ id \in DOMAIN data.notes) =>
              LET note == get_note(data, id)[1]
                  meta == data.notes[id]
              IN  /\ meta.id = note.id
                  /\ meta.path = note.path
                  /\ meta.title = note.title
                  /\ meta.date = note.date

\* One note is indexed and the other has just been removed after being indexed.
C8_Witness ==
    /\ lastOp.kind = "remove"
    /\ lastOp.parsed # None
    /\ DOMAIN data.notes # {}

\* index of the last task of a Vec<Task> that has the given id
LastIndexWithId(tasks, id) ==
    CHOOSE i \in DOMAIN tasks :
        /\ tasks[i].id = id
        /\ \A j \in DOMAIN tasks : tasks[j].id = id => j <= i

\* C9: latest upsert wins.  Right after upsert_parsed_note(P), get_task(t.id)
\* is, for every task t of P, the last task of P.tasks with that id.
C9_LatestUpsertWins ==
    lastOp.kind = "upsert" =>
        LET tasks == lastOp.parsed[1].tasks
        IN  \A i \in DOMAIN tasks :
                get_task(data, tasks[i].id) = Some(tasks[LastIndexWithId(tasks, tasks[i].id)])

\* P has two different tasks with one id, and the other note, still indexed,
\* supplied a task with that id earlier.
C9_Witness ==
    /\ lastOp.kind = "upsert"
    /\ \E i, j \in DOMAIN lastOp.parsed[1].tasks :
          LET tasks == lastOp.parsed[1].tasks
          IN  /\ i < j
              /\ tasks[i].id = tasks[j].id
              /\ tasks[i] # tasks[j]
              /\ \E n \in Indexed(data) \ {lastOp.note} :
                    \E k \in DOMAIN parsedBy[n].tasks : parsedBy[n].tasks[k].id = tasks[i].id

---------------------------------------------------------------------------
(* list_tasks over tasks of every shape the Task type allows.  The parser    *)
(* only emits Open/Done tasks without description; a caller of the public    *)
(* IndexStore trait may upsert any ParsedNote, which is what feeds the       *)
(* status, description and timestamp branches of the filter chain.           *)

FilterTimes == { [ date |-> 2, secs |-> 0 ], [ date |-> 3, secs |-> 0 ] }

\* the task T-1 of note v/inbox.md, in every combination of the filtered fields
FilterTasks ==
    { [ id |-> "T-1",
        title |-> title,
        status |-> status,
        created_at |-> [ date |-> 2, secs |-> 0 ],
        updated_at |-> updated_at,
        closed_at |-> closed_at,
        tags |-> tags,
        description_md |-> description_md,
        source_note_id |-> Some("v/inbox.md") ] :
      title \in { <<"A", "b">>, <<"b">> },
      status \in { "Open", "InProgress", "Done" },
      updated_at \in FilterTimes,
      closed_at \in { None } \cup { Some(t) : t \in FilterTimes },
      tags \in { <<"x">>, <<"x", "y">> },
      description_md \in { None, Some(<<"a", "B">>) } }

\* two shapes of the task T-2 of note v/2025-03-15.md
OtherTasks ==
    { [ id |-> "T-2", title |-> <<"a", "b">>, status |-> "Blocked",
        created_at |-> [ date |-> 2, secs |-> 0 ], updated_at |-> [ date |-> 2, secs |-> 0 ],
        closed_at |-> None, tags |-> <<"y">>, description_md |-> None,
        source_note_id |-> Some("v/2025-03-15.md") ],
      [ id |-> "T-2", title |-> <<"B">>, status |-> "Open",
        created_at |-> [ date |-> 2, secs |-> 0 ], updated_at |-> [ date |-> 3, secs |-> 0 ],
        closed_at |-> None, tags |-> <<"y", "x">>, description_md |-> Some(<<"b", "a">>),
        source_note_id |-> Some("v/2025-03-15.md") ] }

\* a ParsedNote holding one task and nothing else
SingleTaskNote(task) ==
    [ note |-> read_note(task.source_note_id[1], [ tasks |-> <<>>, logs |-> <<>> ]),
      tasks |-> <<task>>,
      log_entries |-> <<>>,
      mentions |-> <<>> ]

DirectInputs == { SingleTaskNote(task) : task \in FilterTasks \cup OtherTasks }

Filters ==
    [ status        : { None, Some("Open"), Some("Done") },
      tags          : { <<>>, <<"x">>, <<"y">>, <<"x", "y">> },
      text_search   : { None, Some(<<>>), Some(<<"a">>), Some(<<"A", "B">>) },
      touched_since : { None, Some(3) } ]

UpsertDirect == \E parsed \in DirectInputs : UpsertParsedNote(parsed)

NextFilter == UpsertDirect \/ Remove

SpecFilter == Init /\ [][NextFilter]_vars

\* the same letter, whatever the case
SameLetter(a, b) == a = b \/ {a, b} \in { {"a", "A"}, {"b", "B"} }

\* needle occurs in hay, letter case ignored
CaseInsensitiveSubstring(needle, hay) ==
    \E k \in 0 .. (Len(hay) - Len(needle)) :
        \A j \in 1 .. Len(needle) : SameLetter(hay[k + j], needle[j])

\* the task satisfies every set field of the filter
Satisfies(task, f) ==
    /\ f.status # None => task.status = f.status[1]
    /\ \A tag \in Range(f.tags) : tag \in Range(task.tags)
    /\ f.text_search # None =>
          \/ CaseInsensitiveSubstring(f.text_search[1], task.title)
          \/ /\ task.description_md # None
             /\ CaseInsensitiveSubstring(f.text_search[1], task.description_md[1])
    /\ f.touched_since # None =>
          \/ task.updated_at.date >= f.touched_since[1]
          \/ /\ task.closed_at # None
             /\ task.closed_at[1].date >= f.touched_since[1]

\* C10: list_tasks(filter) returns exactly the indexed tasks that satisfy every
\* set field of the filter (status equal; every requested tag carried; search
\* text a case-insensitive substring of title or description; updated_at, or a
\* set closed_at, dated on or after touched_since); the default filter returns
\* all indexed tasks.
C10_ListTasksExact ==
    /\ \A f \in Filters :
          list_tasks(data, f) = { task \in IndexedTasks(data) : Satisfies(task, f) }
    /\ list_tasks(data, DefaultFilter) = IndexedTasks(data)

\* Two tasks are indexed and a filter with all four fields set keeps one of
\* them and drops the other.
C10_Witness ==
    /\ Cardinality(IndexedTasks(data)) = 2
    /\ \E f \in Filters :
          /\ f.status # None
          /\ Len(f.tags) = 2
          /\ f.text_search # None
          /\ f.touched_since # None
          /\ Cardinality(list_tasks(data, f)) = 1

---------------------------------------------------------------------------
(* list_notes_by_date over notes of several dates *)

\* Upper bound on the number of store calls in one behaviour of SpecDates.
MaxDateSteps == 4

\* Two notes of one date, one a day earlier, one a day later (a YY-MM-DD
\* name), one without a date.
DatedPaths ==
    { "v/2025-03-14.md", "v/2025-03-15.md", "w/2025-03-15.md", "v/25-03-16.md", "v/inbox.md" }

DatedInputs ==
    { parse_note_internal(read_note(path, [ tasks |-> <<>>, logs |-> <<>> ]), now) :
        path \in DatedPaths, now \in ParseTimes }

UpsertDated ==
    \E parsed \in DatedInputs :
        /\ steps < MaxDateSteps
        /\ data' = upsert_parsed_note(data, parsed)
        /\ parsedBy' = MapInsert(parsedBy, parsed.note.id, parsed)
        /\ lastOp' = [ kind |-> "upsert", note |-> parsed.note.id, parsed |-> Some(parsed) ]
        /\ steps' = steps + 1
        /\ UNCHANGED <<client, files, ret, iter, stdout, loop>>

RemoveDated ==
    \E note_id \in DatedPaths :
        /\ steps < MaxDateSteps
        /\ data' = remove_note(data, note_id)
        /\ parsedBy' = MapRemove(parsedBy, note_id)
        /\ lastOp' = [ kind |-> "remove", note |-> note_id,
                       parsed |-> IF note_id \in DOMAIN parsedBy
                                  THEN Some(parsedBy[note_id]) ELSE None ]
        /\ steps' = steps + 1
        /\ UNCHANGED <<client, files, ret, iter, stdout, loop>>

NextDates == UpsertDated \/ RemoveDated

SpecDates == Init /\ [][NextDates]_vars

\* the indexed notes dated within the range, bounds included, as NoteMeta
NotesDatedWithin(d, range) ==
    { NoteMetaOf(d.note_content[n]) : n \in
        { m \in Indexed(d) :
            /\ d.note_content[m].date # None
            /\ range.start <= d.note_content[m].date[1]
            /\ d.note_content[m].date[1] <= range.end } }

\* C11: list_notes_by_date(range) returns exactly the indexed notes dated d
\* with range.start <= d <= range.end, each once, in ascending order of date,
\* whatever the iteration order of the notes table; undated notes are never
\* returned and the result is empty when start > end.
C11_NotesByDateExactSorted ==
    \A range \in DateRanges :
        \A order \in IterationOrders(data.notes) :
            LET v == list_notes_by_date_vec(data, range, order)
            IN  /\ Range(v) = NotesDatedWithin(data, range)
                /\ Len(v) = Cardinality(NotesDatedWithin(data, range))
                /\ \A i, j \in DOMAIN v : i < j => v[i].date[1] <= v[j].date[1]
                /\ \A i \in DOMAIN v : v[i].date # None
                /\ range.start > range.end => v = <<>>

\* Four notes are indexed: one dated at the start of a range, one at its end,
\* one a day before the start, and one without a date.
C11_Witness ==
    /\ Indexed(data) = { "v/2025-03-14.md", "v/2025-03-15.md", "v/25-03-16.md", "v/inbox.md" }
    /\ \E range \in DateRanges :
          /\ range.start = 3
          /\ range.end = 4
          /\ Cardinality(list_notes_by_date(data, range)) = 2

---------------------------------------------------------------------------
(* Claims about the reverse indices, under Spec *)

\* C12: items_for_tag(tag) returns all and only the indexed tasks and indexed
\* log entries whose own tags list contains the string tag: every returned
\* item carries the tag and every indexed item carrying it is returned.
C12_ItemsForTagExact ==
    \A tag \in Tags :
        /\ Range(items_for_tag(data, tag).tasks) =
              { task \in IndexedTasks(data) : tag \in Range(task.tags) }
        /\ Range(items_for_tag(data, tag).log_entries) =
              { entry \in IndexedLogEntries(data) : tag \in Range(entry.tags) }

\* C13: get_log_entries_for_task(T) returns exactly the indexed log entries
\* whose task_ids contain T, from whichever note they come, and the empty
\* list when there are none.
C13_LogEntriesForTaskExact ==
    \A t \in TaskIds :
        Range(get_log_entries_for_task(data, t)) =
            { entry \in IndexedLogEntries(data) : t \in Range(entry.task_ids) }

---------------------------------------------------------------------------
(* The parser applied to note texts *)

\* n copies of one character
Repeat(c, n) == [ i \in 1 .. n |-> c ]

\* Lines written to a file, each ended by "\n"
RECURSIVE Unlines(_)
Unlines(ls) == IF ls = <<>> THEN <<>> ELSE Head(ls) \o <<"\n">> \o Unlines(Tail(ls))

Item == << "-", " " >>
Ref1 == << "[", "T", "-", "1", "]" >>
Ref2 == << "[", "T", "-", "2", "]" >>
Open1 == Item \o << "[", " ", "]", " " >> \o Ref1 \o << " ", "A", "b", " ", "#", "x" >>
Done1 == Item \o << "[", "x", "]", " " >> \o Ref1 \o << " ", "b" >>
Done2 == Item \o << "[", "X", "]", " " >> \o Ref2 \o << " ", "c" >>

\* Line groups of a Tasks section: open and done items, a continuation line,
\* an upper-case mark, an indented item, an item without a bracketed id
TaskGroups ==
    { <<>>,
      << Open1 >>,
      << Done1, << " ", " ", "m", "o", "r", "e", " ", "#", "y" >> >>,
      << Done2 >>,
      << Open1, Done2 >>,
      << << " ", " " >> \o Item \o << "[", "x", "]", " ", " " >> \o Ref2 \o << " ", "c" >>,
         Item \o << "[", " ", "]", " ", "T", "-", "1", " ", "d" >> >> }

\* Line groups of a Log section: items with and without a time, with tokens
\* repeated or on a continuation line, a time with a mixed-case suffix, lines
\* that are no items, and bodies
\* longer than MAX_EXCERPT bytes with and without multi-byte characters
LogGroups ==
    { <<>>,
      << Item \o << "d", "i", "d", " " >> \o Ref1 >>,
      << Item \o << "0", "9", ":", "1", "0", " ", "m", "e", "t", " " >> \o Ref2
              \o << " ", "a", "n", "d", " " >> \o Ref2 \o << " ", "#", "x" >> >>,
      << Item \o << "9", ":", "0", "5", "p", "m", " ", "s", "a", "w", " " >> \o Ref1,
         << " ", " ", "t", "h", "e", "n", " " >> \o Ref2,
         << "p", "l", "a", "i", "n" >> >>,
      << Item \o << "n", "o", "t", "e" >>, Item \o << "d", "i", "d", " " >> \o Ref1 >>,
      << << "t", "e", "x", "t", " " >> \o Ref1 >>,
      << << "-" >> \o Ref1 \o << " ", "g", "l", "u", "e", "d" >> >>,
      << << " ", " " >> \o Item \o << "1", "0", ":", "0", "0", " ", "i", "n", " " >> \o Ref1 >>,
      << << " ", " " >> \o Item \o << "i", "n", " " >> \o Ref1 >>,
      << Item \o << "9", ":", "0", "5", "P", "m", " ", "s", "a", "w" >> >>,
      << Item \o Repeat("a", MAX_EXCERPT + 10) \o << " " >> \o Ref1 >>,
      << Item \o Ref2 \o << " " >> \o Repeat("a", MAX_EXCERPT - 6) >>,
      << Item \o Ref2 \o << " " >> \o Repeat("a", MAX_EXCERPT - 5) >>,
      << Item \o Repeat("a", MAX_EXCERPT - 1) \o << "U+00E9", " " >> \o Ref1 >>,
      << Item \o Repeat("a", MAX_EXCERPT - 1) \o << "U+00E9", " ", "n", "o" >> >>,
      << Item \o Ref1 \o << " " >> \o Repeat("U+00E9", 60) >> }

TasksHeading1 == << "#", "#", " ", "T", "a", "s", "k", "s" >>

TasksHeadings == { TasksHeading1, << " ", "#", "#", " ", "T", "A", "S", "K", "S", " " >> }

LogHeading == << "#", "#", " ", "L", "o", "g" >>

\* Note texts: a title line, a Tasks section and a Log section
NoteTexts ==
    { Unlines(<< << "#", " ", "d" >>, h >> \o tg \o << <<>>, LogHeading >> \o lg) :
        h \in TasksHeadings, tg \in TaskGroups, lg \in LogGroups }

\* A vault holding one note file, nothing parsed yet
InitParser ==
    /\ data = EmptyIndex
    /\ parsedBy = EmptyMap
    /\ lastOp = [ kind |-> "new", note |-> "", parsed |-> None ]
    /\ steps = 0
    /\ \E text \in NoteTexts : files = MapInsert(EmptyMap, "v/2025-03-15.md", text)
    /\ ret = None
    /\ iter = <<>>
    /\ stdout = <<>>
    /\ loop = "none"
    /\ NoClient

\* NoteParser::parse on the note read from a file
ParseNote ==
    \E path \in DOMAIN files, now \in ParseTimes :
        /\ ret = None
        /\ ret' = Some(parse(read_note(path, files[path]), now))
        /\ lastOp' = [ kind |-> "parse", note |-> path, parsed |-> None ]
        /\ UNCHANGED <<client, data, parsedBy, steps, files, iter, stdout, loop>>

NextParser == ParseNote

SpecParser == InitParser /\ [][NextParser]_vars

\* C14: the parser is total: whatever the note text, log items with a task
\* reference and a combined body over 120 bytes holding multi-byte characters
\* included, parse returns a ParsedNote and never aborts.
C14_ParserTotal == ret # None => ~ret[1].panic

\* The section in force at line i: that of the last heading line before it
SectionAt(all, i) ==
    LET hs == { j \in 1 .. i - 1 : strip_prefix(trim(all[j]), << "#", "#", " " >>) # None }
    IN  IF hs = {} THEN "Other"
        ELSE LET j == CHOOSE j \in hs : \A h \in hs : h <= j
             IN  SectionOf(strip_prefix(trim(all[j]), << "#", "#", " " >>)[1])

\* List item, checkbox with a blank or an x of either case, bracketed task id
TaskLineForm(line) == TaskLineCaptures(trim(line), { " ", "x", "X" })

\* C15: every line of the Tasks section of the form list item + checkbox +
\* bracketed task id + text is captured as a task, in order; a mark x or X
\* gives Done with closed_at set and equal to created_at and updated_at, a
\* blank mark gives Open with closed_at unset; the id is the bracketed token
\* and source_note_id is the note's id.
C15_CheckboxStatus ==
    (ret # None /\ ~ret[1].panic) =>
        LET note == ret[1].parsed[1].note
            tasks == ret[1].parsed[1].tasks
            all == lines(note.content)
            form == SelectSeq([ i \in 1 .. Len(all) |-> i ],
                        LAMBDA i : SectionAt(all, i) = "Tasks" /\ TaskLineForm(all[i]) # None)
        IN  /\ Len(tasks) = Len(form)
            /\ \A k \in DOMAIN form :
                  LET caps == TaskLineForm(all[form[k]])[1]
                      task == tasks[k]
                  IN  /\ task.id = caps.id
                      /\ task.source_note_id = Some(note.id)
                      /\ task.created_at = task.updated_at
                      /\ IF caps.mark \in { "x", "X" }
                         THEN task.status = "Done" /\ task.closed_at = Some(task.created_at)
                         ELSE task.status = "Open" /\ task.closed_at = None

\* The bracketed task-id tokens of a body, in order of appearance: a token
\* starts at p when "[T-" stands there, followed by one or more id characters
\* and "]"
TokenStarts(body) ==
    { p \in DOMAIN body :
        /\ body[p] = "["
        /\ \E q \in p + 4 .. Len(body) :
              /\ body[q] = "]"
              /\ body[p + 1] = "T"
              /\ body[p + 2] = "-"
              /\ \A r \in p + 3 .. q - 1 : body[r] \in IdChars }

TokenAt(body, p) ==
    LET q == CHOOSE q \in p + 4 .. Len(body) :
                 body[q] = "]" /\ \A r \in p + 3 .. q - 1 : body[r] # "]"
    IN  SubSeq(body, p + 1, q - 1)

Tokens(body) ==
    LET starts == TokenStarts(body)
        nth(k) == CHOOSE p \in starts : Cardinality({ o \in starts : o < p }) = k - 1
    IN  [ k \in 1 .. Cardinality(starts) |-> TokenAt(body, nth(k)) ]

\* The mentions of the parser's result that belong to one log entry
MentionsOf(parsed, entry) ==
    SelectSeq(parsed.mentions, LAMBDA m : m.log_entry_id = Some(entry.id))

\* C16: for every log entry the parser emits there is exactly one TaskMention
\* per bracketed task-id token of the entry's combined body, in order of
\* appearance, repeated tokens included; each has the note's id, the entry's
\* id and the same excerpt, the entry's task_ids lists the same ids in the
\* same order, and an entry without a token has no mention.
C16_MentionPerToken ==
    (ret # None /\ ~ret[1].panic) =>
        LET parsed == ret[1].parsed[1]
        IN  /\ \A k \in DOMAIN parsed.log_entries :
                  LET entry == parsed.log_entries[k]
                      tokens == Tokens(ret[1].combined[k])
                      ms == MentionsOf(parsed, entry)
                  IN  /\ [ j \in DOMAIN ms |-> ms[j].task_id ] = tokens
                      /\ entry.task_ids = tokens
                      /\ \A j \in DOMAIN ms :
                            /\ ms[j].note_id = parsed.note.id
                            /\ ms[j].excerpt = ms[1].excerpt
            /\ \A j \in DOMAIN parsed.mentions :
                  \E k \in DOMAIN parsed.log_entries :
                      parsed.mentions[j].log_entry_id = Some(parsed.log_entries[k].id)
            /\ Len(parsed.mentions) =
                  Len(Concat([ k \in DOMAIN parsed.log_entries |->
                                  parsed.log_entries[k].task_ids ]))

\* An entry whose body spans a continuation line and holds two tokens, and
\* (in another note) an entry that repeats a token
C16_Witness ==
    /\ ret # None
    /\ ~ret[1].panic
    /\ \E k \in DOMAIN ret[1].combined :
          LET entry == ret[1].parsed[1].log_entries[k]
          IN  /\ "\n" \in Range(ret[1].combined[k])
              /\ entry.task_ids = << << "T", "-", "1" >>, << "T", "-", "2" >> >>
              /\ Len(MentionsOf(ret[1].parsed[1], entry)) = 2

\* C17: a mention's excerpt is the entry's combined body when the body has at
\* most 120 characters, else its first 120 characters followed by the ellipsis
\* marker; characters are counted, so a multi-byte character counts once.
C17_ExcerptByCharacters ==
    (ret # None /\ ~ret[1].panic) =>
        \A k \in DOMAIN ret[1].combined :
            LET body == ret[1].combined[k]
                ms == MentionsOf(ret[1].parsed[1], ret[1].parsed[1].log_entries[k])
            IN  \A j \in DOMAIN ms :
                    ms[j].excerpt =
                        IF Len(body) <= MAX_EXCERPT THEN body
                        ELSE SubSeq(body, 1, MAX_EXCERPT) \o ELLIPSIS

---------------------------------------------------------------------------
(* domain.rs: Domain over a FileSystemVault rooted at "v", the in-memory
   index and the Markdown parser *)

\* date.format("%Y-%m-%d") for the days used
format_date(date) ==
    CASE date = 3 -> << "2", "0", "2", "5", "-", "0", "3", "-", "1", "5" >>
      [] date = 4 -> << "2", "0", "2", "5", "-", "0", "3", "-", "1", "6" >>

\* root_path().join(format!("{}.md", date.format("%Y-%m-%d")))
daily_path(date) ==
    CASE date = 3 -> "v/2025-03-15.md"
      [] date = 4 -> "v/2025-03-16.md"

\* format!("# {}\n\n## Tasks\n\n## Log\n", date.format("%Y-%m-%d"))
daily_template(date) ==
    << "#", " " >> \o format_date(date)
        \o << "\n", "\n", "#", "#", " ", "T", "a", "s", "k", "s", "\n", "\n",
              "#", "#", " ", "L", "o", "g", "\n" >>

\* Result<Note>, and a panic that unwinds out of the call
Ok(note) == [ kind |-> "Ok", note |-> Some(note) ]
Err == [ kind |-> "Err", note |-> None ]
Panic == [ kind |-> "panic", note |-> None ]

\* gather_markdown_files: found.sort() on the paths used
SortedPaths == << "v/2025-03-15.md", "v/2025-03-16.md", "v/25-03-16.md", "v/inbox.md" >>

\* Vault::list_note_paths
list_note_paths(fs) == SelectSeq(SortedPaths, LAMBDA path : path \in DOMAIN fs)

\* A file whose bytes are not UTF-8: the byte 0xFF occurs in no encoded text
InvalidUtf8 == << "0xFF" >>

\* fs::read_to_string in Vault::read_note: None when the file is missing or
\* its bytes are not UTF-8
read_to_string(fs, path) ==
    IF path \in DOMAIN fs
    THEN IF "0xFF" \in Range(fs[path]) THEN None ELSE Some(fs[path])
    ELSE None

\* reindex_note_path once the note is read and parsed: upsert_parsed_note,
\* unless the parser panicked
Upserted(d, out) ==
    IF out.panic THEN [ data |-> d, kind |-> "panic", touched |-> FALSE ]
    ELSE [ data |-> upsert_parsed_note(d, out.parsed[1]), kind |-> "Ok", touched |-> TRUE ]

\* VaultIndexManager::reindex_note_path: the index after the call, how the
\* call ended, and whether upsert_parsed_note ran
reindex_note_path(d, fs, path, now) ==
    IF read_to_string(fs, path) = None THEN [ data |-> d, kind |-> "Err", touched |-> FALSE ]
    ELSE Upserted(d, parse(read_note(path, fs[path]), now))

\* VaultIndexManager::full_reindex over the listed paths; r is the outcome
\* for the first of them
RECURSIVE full_reindex_from(_, _, _, _, _)
\* the loop of full_reindex going on to the next path after a failed read
FullReindexNext_keeps_going(r, fs, paths, now, touched) ==
    IF r.kind = "panic" THEN [ r EXCEPT !.touched = touched ]
    ELSE IF r.kind = "Err"
         THEN [ full_reindex_from(r.data, fs, Tail(paths), now, touched) EXCEPT !.kind = "Err" ]
         ELSE full_reindex_from(r.data, fs, Tail(paths), now, TRUE)

FullReindexNext(r, fs, paths, now, touched) ==
    IF r.kind # "Ok" THEN [ r EXCEPT !.touched = touched ]
    ELSE full_reindex_from(r.data, fs, Tail(paths), now, TRUE)

full_reindex_from(d, fs, paths, now, touched) ==
    IF paths = <<>> THEN [ data |-> d, kind |-> "Ok", touched |-> touched ]
    ELSE FullReindexNext(reindex_note_path(d, fs, Head(paths), now), fs, paths, now, touched)

\* Result<()> of reindex_all
Reindexed(r, fs) ==
    [ data |-> r.data, files |-> fs, touched |-> r.touched,
      ret |-> [ kind |-> r.kind, note |-> None ] ]

\* VaultIndexManager::full_reindex; listing is how fs::read_dir ends in
\* list_note_paths ("Err": a directory of the vault cannot be read)
full_reindex(d, fs, now, listing) ==
    IF listing = "Err" THEN [ data |-> d, kind |-> "Err", touched |-> FALSE ]
    ELSE full_reindex_from(d, fs, list_note_paths(fs), now, FALSE)

\* Domain::reindex_all
reindex_all(d, fs, now, listing) == Reindexed(full_reindex(d, fs, now, listing), fs)

\* The refreshed note looked up at the end of write_note and open_daily
NoteAfter(r, fs, id) ==
    [ data |-> r.data, files |-> fs, touched |-> r.touched,
      ret |-> IF r.kind = "panic" THEN Panic
              ELSE IF r.kind = "Err" \/ get_note(r.data, id) = None THEN Err
              ELSE Ok(get_note(r.data, id)[1]) ]

\* Domain::write_note with the file written before the index is consulted
write_note_writes_first(d, fs, id, content, now) ==
    LET fs1 == MapInsert(fs, id, content)
    IN  IF get_note(d, id) = None
        THEN [ data |-> d, files |-> fs1, touched |-> FALSE, ret |-> Err ]
        ELSE NoteAfter(reindex_note_path(d, fs1, id, now), fs1, id)

\* Domain::write_note without the reindex of the written file
write_note_skips_reindex(d, fs, id, content, now) ==
    LET note == get_note(d, id)
    IN  IF note = None
        THEN [ data |-> d, files |-> fs, touched |-> FALSE, ret |-> Err ]
        ELSE [ data |-> d, files |-> MapInsert(fs, note[1].path, content),
               touched |-> FALSE, ret |-> Ok(note[1]) ]

\* Domain::write_note
write_note(d, fs, id, content, now) ==
    LET note == get_note(d, id)
    IN  IF note = None
        THEN [ data |-> d, files |-> fs, touched |-> FALSE, ret |-> Err ]
        ELSE LET fs1 == MapInsert(fs, note[1].path, content)
             IN  NoteAfter(reindex_note_path(d, fs1, note[1].path, now), fs1, id)

\* Domain::open_daily writing the template whether or not the file exists
open_daily_overwrites(d, fs, order, date, now) ==
    LET dated == list_notes_by_date_vec(d, [ start |-> date, end |-> date ], order)
        found == SelectSeq(dated, LAMBDA meta : meta.date = Some(date))
        path == daily_path(date)
        fs1 == MapInsert(fs, path, daily_template(date))
    IN  IF found # <<>> /\ get_note(d, found[1].id) # None
        THEN [ data |-> d, files |-> fs, touched |-> FALSE,
               ret |-> Ok(get_note(d, found[1].id)[1]) ]
        ELSE NoteAfter(reindex_note_path(d, fs1, path, now), fs1, path)

\* Domain::open_daily; order is the sequence in which index.notes iterates
open_daily(d, fs, order, date, now) ==
    LET dated == list_notes_by_date_vec(d, [ start |-> date, end |-> date ], order)
        found == SelectSeq(dated, LAMBDA meta : meta.date = Some(date))
        path == daily_path(date)
        fs1 == IF path \in DOMAIN fs THEN fs ELSE MapInsert(fs, path, daily_template(date))
    IN  IF found # <<>> /\ get_note(d, found[1].id) # None
        THEN [ data |-> d, files |-> fs, touched |-> FALSE,
               ret |-> Ok(get_note(d, found[1].id)[1]) ]
        ELSE NoteAfter(reindex_note_path(d, fs1, path, now), fs1, path)

\* Domain::read_note
domain_read_note(d, id) == get_note(d, id)

---------------------------------------------------------------------------
(* The Domain under write_note / open_daily / reindex_all calls *)

MaxDomainSteps == 3

DomainDates == { 3, 4 }

\* Contents written and found in the vault: a note with a task and a log
\* item, a note with a tagged log item, and a log item on which
\* build_excerpt panics
TextA ==
    Unlines(<< TasksHeading1, Open1, LogHeading, Item \o << "d", "i", "d", " " >> \o Ref1 >>)

TextB ==
    Unlines(<< LogHeading, Item \o << "m", "e", "t", " " >> \o Ref2 \o << " ", "#", "y" >> >>)

TextP ==
    Unlines(<< LogHeading,
               Item \o Repeat("a", MAX_EXCERPT - 1) \o << "U+00E9", " " >> \o Ref1 >>)

WrittenTexts == { TextB, TextP }

\* The vault directory when the Domain is constructed: empty, one dated
\* note, two notes of the same date, these and an undated note (all with the
\* same content), or a lone file the parser panics on
InitialVaults ==
    { [ path \in paths |-> TextA ] :
        paths \in { {}, { "v/25-03-16.md" }, { "v/25-03-16.md", "v/2025-03-16.md" },
                    { "v/25-03-16.md", "v/2025-03-16.md", "v/inbox.md" } } }
    \cup { MapInsert(EmptyMap, "v/inbox.md", TextP) }

\* Domain::new over an empty index
InitDomain ==
    /\ data = EmptyIndex
    /\ parsedBy = EmptyMap
    /\ lastOp = [ kind |-> "new", note |-> "", parsed |-> None ]
    /\ steps = 0
    /\ files \in InitialVaults
    /\ ret = None
    /\ iter = <<>>
    /\ stdout = <<>>
    /\ loop = "none"
    /\ NoClient

\* The previous call, as the next one records it
Previous ==
    [ kind |-> lastOp.kind,
      date |-> IF lastOp.kind = "open_daily" THEN lastOp.date ELSE 0,
      ret  |-> ret ]

\* One Domain call that ended with out.  A panic ends the run.
DomainCall(out, op) ==
    /\ steps < MaxDomainSteps
    /\ IF ret = None THEN TRUE ELSE ret[1].kind # "panic"
    /\ data' = out.data
    /\ files' = out.files
    /\ ret' = Some(out.ret)
    /\ iter' \in IF out.touched THEN IterationOrders(out.data.notes) ELSE { iter }
    /\ lastOp' = op
    /\ steps' = steps + 1
    /\ UNCHANGED <<client, parsedBy, stdout, loop>>

WriteNote ==
    \E id \in Range(SortedPaths), content \in WrittenTexts, now \in ParseTimes :
        DomainCall(write_note(data, files, id, content, now),
                   [ kind |-> "write_note", note |-> id, parsed |-> None,
                     date |-> 0, content |-> content, prev |-> Previous ])

OpenDaily ==
    \E date \in DomainDates, now \in ParseTimes :
        DomainCall(open_daily(data, files, iter, date, now),
                   [ kind |-> "open_daily", note |-> "", parsed |-> None,
                     date |-> date, content |-> <<>>, prev |-> Previous ])

ReindexAll ==
    \E now \in ParseTimes :
        DomainCall(reindex_all(data, files, now, "Ok"),
                   [ kind |-> "reindex_all", note |-> "", parsed |-> None,
                     date |-> 0, content |-> <<>>, prev |-> Previous ])

NextDomain == WriteNote \/ OpenDaily \/ ReindexAll

SpecDomain == InitDomain /\ [][NextDomain]_vars

\* C18: write_note(id, content) for a note id that is not indexed returns an
\* error and changes nothing: no file is written and the index, hence every
\* query on it, is what it was before the call.
C18_WriteUnknownFails ==
    [][ (lastOp'.kind = "write_note" /\ domain_read_note(data, lastOp'.note) = None)
            => /\ ret'[1].kind = "Err"
               /\ files' = files
               /\ data' = data ]_vars

\* write_note failed on a note whose file is in the vault but not in the index
C18_Witness ==
    /\ lastOp.kind = "write_note"
    /\ ret[1].kind = "Err"
    /\ lastOp.note \in DOMAIN files
    /\ lastOp.note \notin Indexed(data)
    /\ Indexed(data) # {}

\* C19: when write_note(id, content) succeeds, the returned note has the id
\* asked for and content equal to content, read_note(id) right after returns
\* that same note, and the backing file holds content.
C19_WriteReadRoundTrip ==
    (lastOp.kind = "write_note" /\ ret[1].kind = "Ok") =>
        LET note == ret[1].note[1]
        IN  /\ note.id = lastOp.note
            /\ note.content = lastOp.content
            /\ domain_read_note(data, lastOp.note) = Some(note)
            /\ note.path \in DOMAIN files
            /\ files[note.path] = lastOp.content

\* write_note replaced the template of the daily note open_daily had just
\* created by a different content
C19_Witness ==
    /\ lastOp.kind = "write_note"
    /\ ret[1].kind = "Ok"
    /\ lastOp.content = TextB
    /\ lastOp.prev.kind = "open_daily"
    /\ lastOp.prev.ret[1].kind = "Ok"
    /\ lastOp.prev.ret[1].note[1].id = lastOp.note
    /\ lastOp.prev.ret[1].note[1].content = daily_template(lastOp.prev.date)

\* C20: two consecutive successful calls open_daily(d) return notes with the
\* same id, both dated d, and the second call neither creates nor modifies a
\* file.
C20_OpenDailyIdempotent ==
    [][ ( /\ lastOp.kind = "open_daily" /\ ret[1].kind = "Ok"
          /\ lastOp'.kind = "open_daily" /\ ret'[1].kind = "Ok"
          /\ lastOp'.date = lastOp.date )
            => /\ ret'[1].note[1].id = ret[1].note[1].id
               /\ ret[1].note[1].date = Some(lastOp.date)
               /\ ret'[1].note[1].date = Some(lastOp.date)
               /\ files' = files ]_vars

\* open_daily(d) succeeded twice in a row, the first call having created the
\* file, with another note of the same date in the vault
C20_Witness ==
    /\ lastOp.kind = "open_daily"
    /\ ret[1].kind = "Ok"
    /\ lastOp.prev.kind = "open_daily"
    /\ lastOp.prev.date = lastOp.date
    /\ lastOp.prev.ret[1].kind = "Ok"
    /\ files[daily_path(lastOp.date)] = daily_template(lastOp.date)
    /\ "v/25-03-16.md" \in DOMAIN files
    /\ lastOp.date = 4

---------------------------------------------------------------------------
(* domain.rs: weekly_summary *)

\* the argument of top_tags.truncate
TOP_TAGS == 10

\* how many times tag occurs in a task's tags
Occurrences(tags, tag) == Cardinality({ i \in DOMAIN tags : tags[i] = tag })

\* *tag_counts.entry(tag.clone()).or_default() += 1, over every tag of every task
RECURSIVE CountTag(_, _)
CountTag(tasks, tag) ==
    IF tasks = {} THEN 0
    ELSE LET task == CHOOSE t \in tasks : TRUE
         IN  Occurrences(task.tags, tag) + CountTag(tasks \ {task}, tag)

tag_counts(all_tasks) ==
    [ tag \in UNION { Range(task.tags) : task \in all_tasks } |-> CountTag(all_tasks, tag) ]

\* One step of the stable sort: pair goes after the pairs whose count is no smaller.
InsertByCount(sorted, pair) ==
    LET k == Cardinality({ i \in DOMAIN sorted : sorted[i][2] >= pair[2] })
    IN  SubSeq(sorted, 1, k) \o <<pair>> \o SubSeq(sorted, k + 1, Len(sorted))

\* top_tags.sort_by(|a, b| b.1.cmp(&a.1))
RECURSIVE SortByCount(_)
SortByCount(v) ==
    IF v = <<>> THEN <<>>
    ELSE InsertByCount(SortByCount(SubSeq(v, 1, Len(v) - 1)), v[Len(v)])

truncate(v, n) == SubSeq(v, 1, IF Len(v) < n THEN Len(v) ELSE n)

\* tag_counts.into_iter().collect(), sorted and truncated, when the HashMap
\* iterates in tag_order
top_tags(counts, tag_order) ==
    truncate(SortByCount([ i \in DOMAIN tag_order |-> <<tag_order[i], counts[tag_order[i]]>> ]),
             TOP_TAGS)

within(date, range) == date >= range.start /\ date <= range.end

\* new_tasks keeps the tasks created within the range, by updated_at for created_at
weekly_summary_by_updated_at(d, range, tag_order) ==
    LET all_tasks == list_tasks(d, DefaultFilter)
    IN  [ new_tasks |-> { task \in all_tasks : within(date_of(task.updated_at), range) },
          completed_tasks |->
              { task \in all_tasks :
                  IF task.closed_at # None
                  THEN within(date_of(task.closed_at[1]), range) ELSE FALSE },
          notes |-> list_notes_by_date(d, range),
          top_tags |-> top_tags(tag_counts(all_tasks), tag_order) ]

\* The WeeklySummary; new_tasks and completed_tasks are Vecs in the order of
\* list_tasks, notes the Vec of list_notes_by_date: each is given by its contents.
weekly_summary(d, range, tag_order) ==
    LET all_tasks == list_tasks(d, DefaultFilter)
    IN  [ new_tasks |-> { task \in all_tasks : within(date_of(task.created_at), range) },
          completed_tasks |->
              { task \in all_tasks :
                  IF task.closed_at # None
                  THEN within(date_of(task.closed_at[1]), range) ELSE FALSE },
          notes |-> list_notes_by_date(d, range),
          top_tags |-> top_tags(tag_counts(all_tasks), tag_order) ]

\* the iteration orders of the tag_counts map built from the store d
TagOrders(d) == IterationOrders(tag_counts(list_tasks(d, DefaultFilter)))

\* the number of indexed tasks that carry tag
TasksCarrying(d, tag) == Cardinality({ task \in IndexedTasks(d) : tag \in Range(task.tags) })

\* C21: top_tags of weekly_summary(range) holds at most 10 (tag, count) pairs in
\* non-increasing order of count; each count is the number of indexed tasks
\* carrying that tag, over all indexed tasks whatever the range; no tag left
\* out has a larger count than an included one.
C21_TopTags ==
    \A range \in DateRanges : \A tag_order \in TagOrders(data) :
        LET top == weekly_summary(data, range, tag_order).top_tags
            included == { top[i][1] : i \in DOMAIN top }
        IN  /\ Len(top) <= 10
            /\ \A i, j \in DOMAIN top : i < j => top[i][2] >= top[j][2]
            /\ \A i \in DOMAIN top : top[i][2] = TasksCarrying(data, top[i][1])
            /\ \A tag \in Tags \ included : \A i \in DOMAIN top :
                  TasksCarrying(data, tag) <= top[i][2]

\* C22: new_tasks of weekly_summary(range) is exactly the indexed tasks created
\* on a date within the inclusive range, completed_tasks exactly the indexed
\* tasks that have closed_at set on a date within it, and notes exactly
\* list_notes_by_date(range).
C22_SummaryLists ==
    \A range \in DateRanges : \A tag_order \in TagOrders(data) :
        LET summary == weekly_summary(data, range, tag_order)
        IN  /\ summary.new_tasks =
                  { task \in IndexedTasks(data) :
                      /\ range.start <= task.created_at.date
                      /\ task.created_at.date <= range.end }
            /\ summary.completed_tasks =
                  { task \in IndexedTasks(data) :
                      /\ task.closed_at # None
                      /\ range.start <= task.closed_at[1].date
                      /\ task.closed_at[1].date <= range.end }
            /\ summary.notes = list_notes_by_date(data, range)

\* Two tasks are indexed, one closed and one open, and some range takes both
\* as new, exactly one as completed, and a note; another range takes neither.
C22_Witness ==
    /\ Cardinality(IndexedTasks(data)) = 2
    /\ \E range \in DateRanges : \E tag_order \in TagOrders(data) :
          LET summary == weekly_summary(data, range, tag_order)
          IN  /\ Cardinality(summary.new_tasks) = 2
              /\ Cardinality(summary.completed_tasks) = 1
              /\ summary.notes # {}
    /\ \E range \in DateRanges : \E tag_order \in TagOrders(data) :
          LET summary == weekly_summary(data, range, tag_order)
          IN  /\ range.start <= range.end
              /\ summary.new_tasks = {}
              /\ summary.completed_tasks = {}

---------------------------------------------------------------------------
(* full_reindex over a vault whose files are edited outside the program and
   may be unreadable *)

ReindexPaths == { "v/2025-03-15.md", "v/2025-03-16.md", "v/inbox.md" }

\* The vault directory when the Domain is constructed: three files, each a
\* note or not UTF-8
ReindexVaults == [ ReindexPaths -> { TextA, InvalidUtf8 } ]

InitReindex ==
    /\ data = EmptyIndex
    /\ parsedBy = EmptyMap
    /\ lastOp = [ kind |-> "new", note |-> "", parsed |-> None ]
    /\ steps = 0
    /\ files \in ReindexVaults
    /\ ret = None
    /\ iter = <<>>
    /\ stdout = <<>>
    /\ loop = "none"
    /\ NoClient

\* Domain::reindex_all, with fs::read_dir succeeding or failing
ReindexAllIo ==
    \E now \in ParseTimes, listing \in { "Ok", "Err" } :
        DomainCall(reindex_all(data, files, now, listing),
                   [ kind |-> "reindex_all", note |-> "", parsed |-> None,
                     date |-> 0, content |-> <<>>, prev |-> Previous,
                     listing |-> listing ])

\* The user saves a file of the vault from an editor
EditFile ==
    \E path \in ReindexPaths, content \in { TextB, InvalidUtf8 } :
        /\ steps < MaxDomainSteps
        /\ files' = MapInsert(files, path, content)
        /\ lastOp' = [ kind |-> "edit", note |-> path, parsed |-> None,
                       date |-> 0, content |-> content, prev |-> Previous ]
        /\ steps' = steps + 1
        /\ UNCHANGED <<client, data, parsedBy, ret, iter, stdout, loop>>

NextReindex == ReindexAllIo \/ EditFile

SpecReindex == InitReindex /\ [][NextReindex]_vars

\* what the store holds for the note id
NoteState(d, id) ==
    [ content       |-> get_note(d, id),
      meta          |-> IF id \in DOMAIN d.notes THEN Some(d.notes[id]) ELSE None,
      task_ids      |-> IF id \in DOMAIN d.note_to_task_ids
                        THEN Some(d.note_to_task_ids[id]) ELSE None,
      log_entry_ids |-> IF id \in DOMAIN d.note_to_log_entry_ids
                        THEN Some(d.note_to_log_entry_ids[id]) ELSE None ]

\* the positions, in the sorted listing of the vault fs, of the files that cannot be read
Unreadable(fs) ==
    { i \in DOMAIN list_note_paths(fs) : read_to_string(fs, list_note_paths(fs)[i]) = None }

Least(set) == CHOOSE i \in set : \A j \in set : i <= j

\* C23: full_reindex is fail-fast: when reading the note at some path fails
\* the call returns an error and the store holds, for the failing path and
\* every path after it in the sorted listing, what it held before the call;
\* when the listing fails the call returns an error and the store is unchanged.
C23_FailFast ==
    [][ lastOp'.kind = "reindex_all" =>
          IF lastOp'.listing = "Err"
          THEN ret'[1].kind = "Err" /\ data' = data
          ELSE Unreadable(files) # {} =>
                 /\ ret'[1].kind = "Err"
                 /\ \A j \in DOMAIN list_note_paths(files) :
                       j >= Least(Unreadable(files)) =>
                         NoteState(data', list_note_paths(files)[j])
                             = NoteState(data, list_note_paths(files)[j]) ]_vars

\* A full reindex has just failed on the second of three files: the first is
\* indexed, the third can be read and is not indexed.
C23_Witness ==
    /\ lastOp.kind = "reindex_all"
    /\ lastOp.listing = "Ok"
    /\ ret[1].kind = "Err"
    /\ Unreadable(files) = { 2 }
    /\ get_note(data, "v/2025-03-15.md") # None
    /\ get_note(data, "v/inbox.md") = None

\* The answers of get_note for every path of the vault, of list_tasks for the
\* default filter and of list_notes_by_date for every range
NoteAnswers(d) ==
    [ get_note      |-> [ n \in Range(SortedPaths) |-> get_note(d, n) ],
      list_tasks    |-> list_tasks(d, DefaultFilter),
      notes_by_date |-> [ r \in DateRanges |-> list_notes_by_date(d, r) ] ]

\* C24: a full reindex that returns an error leaves the index queries with
\* the answers they had before the call: no note read earlier in the same
\* call has been committed to the store.
C24_NoPartialCommit ==
    [][ lastOp'.kind = "reindex_all" /\ ret'[1].kind = "Err" =>
          NoteAnswers(data') = NoteAnswers(data) ]_vars

---------------------------------------------------------------------------
(* note-daemon: rpc.rs and server.rs (main.rs holds the same loop).  A JSON
   value is [t, v]: t names its type and v holds its content; the content of
   a JSON string is given in the form its reader uses, an atom for protocol
   versions, method names, note ids and dates, a character sequence for note
   text, task ids and tags.  A JSON object is a function from its keys. *)

JNull == [ t |-> "null", v |-> "" ]
JStr(s) == [ t |-> "str", v |-> s ]
JNum(n) == [ t |-> "num", v |-> n ]
JArr(s) == [ t |-> "arr", v |-> s ]
JObj(f) == [ t |-> "obj", v |-> f ]

\* enum RpcErrorCode
ParseError == -32700
InvalidRequest == -32600
MethodNotFound == -32601
InvalidParams == -32602
InternalError == -32603
ServerError == -32000

\* RpcResult<Value>, and a panic that unwinds out of dispatch
RpcOk(value) == [ kind |-> "Ok", code |-> 0, value |-> Some(value) ]
RpcErr(code) == [ kind |-> "Err", code |-> code, value |-> None ]
RpcPanic == [ kind |-> "panic", code |-> 0, value |-> None ]

\* RpcError::invalid_params with the code of invalid_request
invalid_params_as_invalid_request == RpcErr(InvalidRequest)

\* RpcError::parse_error, invalid_request, invalid_params, method_not_found;
\* From<anyhow::Error> for RpcError
parse_error == RpcErr(ParseError)
invalid_request == RpcErr(InvalidRequest)
invalid_params == RpcErr(InvalidParams)
method_not_found == RpcErr(MethodNotFound)
server_error == RpcErr(ServerError)

\* RpcResponse::result and RpcResponse::error (the message is left out)
RpcResponse_result(id, value) ==
    [ jsonrpc |-> "2.0", id |-> id, result |-> Some(value), error |-> None ]

RpcResponse_error(id, err) ==
    [ jsonrpc |-> "2.0", id |-> id, result |-> None, error |-> Some([ code |-> err.code ]) ]

\* NaiveDate::parse_from_str(input, "%Y-%m-%d") for the date strings used
parse_date(input) ==
    CASE input = "2025-03-14" -> Some(2)
      [] input = "2025-03-15" -> Some(3)
      [] input = "2025-03-16" -> Some(4)
      [] OTHER -> None

\* parse_range
parse_range(start, end) ==
    IF parse_date(start) = None \/ parse_date(end) = None THEN None
    ELSE Some([ start |-> parse_date(start)[1], end |-> parse_date(end)[1] ])

\* an Option field of a deserialized struct: None when the key is absent or null
OptionField(obj, key) ==
    IF key \in DOMAIN obj
    THEN IF obj[key].t = "null" THEN None ELSE Some(obj[key])
    ELSE None

\* parse_params into a struct whose fields, all of type String, are keys:
\* the object, or None for invalid params
parse_params(params, keys) ==
    LET value == IF params = None THEN JObj(EmptyMap) ELSE params[1]
    IN  IF value.t # "obj" THEN None
        ELSE IF \A key \in keys : IF key \in DOMAIN value.v
                                  THEN value.v[key].t = "str" ELSE FALSE
             THEN Some(value.v)
             ELSE None

\* parse_params::<ListTasksParams>: every field optional, status one of the
\* TaskStatus names, touched_since and text_search strings
parse_list_tasks_params(params) ==
    LET value == IF params = None THEN JObj(EmptyMap) ELSE params[1]
    IN  IF value.t # "obj" THEN None
        ELSE IF /\ OptionField(value.v, "status") # None =>
                      /\ value.v["status"].t = "str"
                      /\ value.v["status"].v \in { "Open", "InProgress", "Done", "Blocked" }
                /\ OptionField(value.v, "text_search") # None =>
                      value.v["text_search"].t = "str"
                /\ OptionField(value.v, "touched_since") # None =>
                      value.v["touched_since"].t = "str"
                /\ OptionField(value.v, "tags") # None =>
                      /\ value.v["tags"].t = "arr"
                      /\ \A i \in DOMAIN value.v["tags"].v : value.v["tags"].v[i].t = "str"
             THEN Some(value.v)
             ELSE None

\* serde_json::from_str::<RpcRequest> on a line that holds the JSON value
\* line.value (kind "json") or text that is no JSON (kind "text")
from_str(line) ==
    IF line.kind # "json" THEN None
    ELSE IF line.value.t # "obj" THEN None
    ELSE IF "method" \notin DOMAIN line.value.v THEN None
    ELSE IF line.value.v["method"].t # "str" THEN None
    ELSE IF OptionField(line.value.v, "jsonrpc") # None /\ line.value.v["jsonrpc"].t # "str"
         THEN None
    ELSE Some([ jsonrpc |-> IF OptionField(line.value.v, "jsonrpc") = None THEN None
                            ELSE Some(line.value.v["jsonrpc"].v),
                id      |-> OptionField(line.value.v, "id"),
                method  |-> line.value.v["method"].v,
                params  |-> OptionField(line.value.v, "params") ])

\* What dispatch leaves behind: the index, the vault, whether
\* upsert_parsed_note ran, and the RpcResult (or a panic)
Dispatched(d, fs, touched, out) ==
    [ data |-> d, files |-> fs, touched |-> touched, out |-> out ]

\* `?` on the anyhow::Result of a mutating Domain call r; value is the JSON
\* of its Ok value
FromDomain(r, value) ==
    Dispatched(r.data, r.files, r.touched,
               IF r.ret.kind = "panic" THEN RpcPanic
               ELSE IF r.ret.kind = "Err" THEN server_error
               ELSE RpcOk(value))

\* the Note a Domain call returned, for to_json
NoteOf(r) == IF r.ret.kind = "Ok" THEN r.ret.note[1] ELSE None

\* "core.reindex"
DispatchReindex(r) == FromDomain(r, [ status |-> "ok" ])

\* TaskFilter built from ListTasksParams p, touched_since parsed
FilterOf(p, touched_since) ==
    [ status |-> IF OptionField(p, "status") = None THEN None ELSE Some(p["status"].v),
      tags |-> IF OptionField(p, "tags") = None THEN <<>>
               ELSE [ i \in DOMAIN p["tags"].v |-> p["tags"].v[i].v ],
      text_search |-> IF OptionField(p, "text_search") = None THEN None
                      ELSE Some(p["text_search"].v),
      touched_since |-> touched_since ]

\* "core.list_tasks"
DispatchListTasks(d, fs, p) ==
    IF p = None THEN Dispatched(d, fs, FALSE, invalid_params)
    ELSE IF OptionField(p[1], "touched_since") = None
         THEN Dispatched(d, fs, FALSE, RpcOk(list_tasks(d, FilterOf(p[1], None))))
    ELSE IF parse_date(p[1]["touched_since"].v) = None
         THEN Dispatched(d, fs, FALSE, invalid_params)
    ELSE Dispatched(d, fs, FALSE,
                    RpcOk(list_tasks(d, FilterOf(p[1], parse_date(p[1]["touched_since"].v)))))

\* "core.task_detail"
DispatchTaskDetail(d, fs, p) ==
    IF p = None THEN Dispatched(d, fs, FALSE, invalid_params)
    ELSE IF get_task(d, p[1]["task_id"].v) = None
         THEN Dispatched(d, fs, FALSE, invalid_request)
    ELSE Dispatched(d, fs, FALSE,
                    RpcOk([ task |-> get_task(d, p[1]["task_id"].v)[1],
                            mentions |-> get_mentions_for_task(d, p[1]["task_id"].v),
                            log_entries |-> get_log_entries_for_task(d, p[1]["task_id"].v) ]))

\* "core.items_for_tag"
DispatchItemsForTag(d, fs, p) ==
    IF p = None THEN Dispatched(d, fs, FALSE, invalid_params)
    ELSE Dispatched(d, fs, FALSE, RpcOk(items_for_tag(d, p[1]["tag"].v)))

\* "core.notes_in_range"
DispatchNotesInRange(d, fs, order, p) ==
    IF p = None THEN Dispatched(d, fs, FALSE, invalid_params)
    ELSE IF parse_range(p[1]["start"].v, p[1]["end"].v) = None
         THEN Dispatched(d, fs, FALSE, invalid_params)
    ELSE Dispatched(d, fs, FALSE,
                    RpcOk(list_notes_by_date_vec(
                              d, parse_range(p[1]["start"].v, p[1]["end"].v)[1], order)))

\* "core.weekly_summary"
DispatchWeeklySummary(d, fs, tag_order, p) ==
    IF p = None THEN Dispatched(d, fs, FALSE, invalid_params)
    ELSE IF parse_range(p[1]["start"].v, p[1]["end"].v) = None
         THEN Dispatched(d, fs, FALSE, invalid_params)
    ELSE Dispatched(d, fs, FALSE,
                    RpcOk(weekly_summary(
                              d, parse_range(p[1]["start"].v, p[1]["end"].v)[1], tag_order)))

\* to_json(note) after `?` on the Result<Note> of open_daily or write_note
NoteResult(r) == FromDomain(r, NoteOf(r))

\* "core.open_daily"
DispatchOpenDaily(d, fs, order, now, p) ==
    IF p = None THEN Dispatched(d, fs, FALSE, invalid_params)
    ELSE IF parse_date(p[1]["date"].v) = None THEN Dispatched(d, fs, FALSE, invalid_params)
    ELSE NoteResult(open_daily(d, fs, order, parse_date(p[1]["date"].v)[1], now))

\* "core.read_note"
DispatchReadNote(d, fs, p) ==
    IF p = None THEN Dispatched(d, fs, FALSE, invalid_params)
    ELSE IF domain_read_note(d, p[1]["note_id"].v) = None
         THEN Dispatched(d, fs, FALSE, invalid_request)
    ELSE Dispatched(d, fs, FALSE, RpcOk(domain_read_note(d, p[1]["note_id"].v)[1]))

\* "core.write_note"
DispatchWriteNote(d, fs, now, p) ==
    IF p = None THEN Dispatched(d, fs, FALSE, invalid_params)
    ELSE NoteResult(write_note(d, fs, p[1]["note_id"].v, p[1]["content"].v, now))

\* dispatch.  order and tag_order are the sequences in which index.notes and
\* the tag_counts map of weekly_summary iterate, listing is how fs::read_dir
\* ends in a reindex.
dispatch(d, fs, order, tag_order, now, listing, method, params) ==
    CASE method = "core.reindex" -> DispatchReindex(reindex_all(d, fs, now, listing))
      [] method = "core.list_tasks" -> DispatchListTasks(d, fs, parse_list_tasks_params(params))
      [] method = "core.task_detail" ->
            DispatchTaskDetail(d, fs, parse_params(params, { "task_id" }))
      [] method = "core.items_for_tag" ->
            DispatchItemsForTag(d, fs, parse_params(params, { "tag" }))
      [] method = "core.notes_in_range" ->
            DispatchNotesInRange(d, fs, order, parse_params(params, { "start", "end" }))
      [] method = "core.weekly_summary" ->
            DispatchWeeklySummary(d, fs, tag_order, parse_params(params, { "start", "end" }))
      [] method = "core.open_daily" ->
            DispatchOpenDaily(d, fs, order, now, parse_params(params, { "date" }))
      [] method = "core.read_note" ->
            DispatchReadNote(d, fs, parse_params(params, { "note_id" }))
      [] method = "core.write_note" ->
            DispatchWriteNote(d, fs, now, parse_params(params, { "note_id", "content" }))
      [] OTHER -> Dispatched(d, fs, FALSE, method_not_found)

\* What handle_request leaves behind: the state after dispatch, whether the
\* call panicked, and the Option<RpcResponse>
Handled(r, response) ==
    [ data |-> r.data, files |-> r.files, touched |-> r.touched,
      panic |-> r.out.kind = "panic", response |-> response ]

\* the match on the result of dispatch in handle_request
Matched(r, id) ==
    Handled(r, IF r.out.kind = "panic" \/ id = None THEN None
               ELSE IF r.out.kind = "Ok" THEN Some(RpcResponse_result(id[1], r.out.value[1]))
               ELSE Some(RpcResponse_error(id[1], r.out)))

\* handle_request calling dispatch before it looks at the jsonrpc field
handle_request_dispatches_first(d, fs, order, tag_order, now, listing, request) ==
    IF request.jsonrpc # Some("2.0")
    THEN Handled([ dispatch(d, fs, order, tag_order, now, listing,
                            request.method, request.params)
                       EXCEPT !.out = invalid_request ],
                 Some(RpcResponse_error(IF request.id = None THEN JNull ELSE request.id[1],
                                        invalid_request)))
    ELSE Matched(dispatch(d, fs, order, tag_order, now, listing, request.method, request.params),
                 request.id)

\* handle_request
handle_request(d, fs, order, tag_order, now, listing, request) ==
    IF request.jsonrpc # Some("2.0")
    THEN Handled(Dispatched(d, fs, FALSE, invalid_request),
                 Some(RpcResponse_error(IF request.id = None THEN JNull ELSE request.id[1],
                                        invalid_request)))
    ELSE Matched(dispatch(d, fs, order, tag_order, now, listing, request.method, request.params),
                 request.id)

---------------------------------------------------------------------------
(* The daemon: main builds the Domain, reindexes the vault and runs the
   request loop over the lines of stdin *)

\* Upper bound on the number of lines read from stdin in one behaviour.
MaxLines == 2

\* One JSON-RPC request object; absent members are left out
Member(key, value) == IF value = None THEN EmptyMap ELSE key :> value[1]

RequestLine(jsonrpc, id, method, params) ==
    [ kind |-> "json",
      value |-> JObj(Member("jsonrpc", jsonrpc) @@ Member("id", id)
                     @@ Member("method", method) @@ Member("params", params)) ]

\* Lines a client sends: bytes that are not UTF-8, a blank line, text that
\* is no JSON, a JSON object without method, requests and notifications
\* with a wrong or missing protocol version, an unknown method, params of
\* the wrong shape, a date that does not parse, calls that reach the Domain
\* (one writes the text build_excerpt panics on), a call with a wrong
\* protocol version that would create a file, and calls that name a task and
\* a note the index does not hold
LinePool ==
    << [ kind |-> "bytes" ],
       [ kind |-> "text", text |-> << " ", " " >> ],
       [ kind |-> "text", text |-> << "h", "i" >> ],
       RequestLine(Some(JStr("2.0")), Some(JNum(1)), None, None),
       RequestLine(Some(JStr("1.0")), None, Some(JStr("core.reindex")), None),
       RequestLine(None, Some(JNum(2)), Some(JStr("core.reindex")), None),
       RequestLine(Some(JStr("2.0")), Some(JNum(3)), Some(JStr("core.nope")), None),
       RequestLine(Some(JStr("2.0")), None, Some(JStr("core.nope")), None),
       RequestLine(Some(JStr("2.0")), Some(JNum(4)), Some(JStr("core.read_note")),
                   Some(JObj("note_id" :> JNum(7)))),
       RequestLine(Some(JStr("2.0")), Some(JNum(5)), Some(JStr("core.open_daily")),
                   Some(JObj("date" :> JStr("16/03/2025")))),
       RequestLine(Some(JStr("2.0")), Some(JNum(6)), Some(JStr("core.open_daily")),
                   Some(JObj("date" :> JStr("2025-03-16")))),
       RequestLine(Some(JStr("2.0")), Some(JNum(7)), Some(JStr("core.write_note")),
                   Some(JObj("note_id" :> JStr("v/2025-03-15.md") @@ "content" :> JStr(TextP)))),
       RequestLine(Some(JStr("2.0")), None, Some(JStr("core.write_note")),
                   Some(JObj("note_id" :> JStr("v/inbox.md") @@ "content" :> JStr(TextB)))),
       RequestLine(Some(JStr("2.0")), Some(JNum(8)), Some(JStr("core.reindex")), None),
       RequestLine(Some(JStr("2.0")), Some(JNum(9)), Some(JStr("core.weekly_summary")),
                   Some(JObj("start" :> JStr("2025-03-14") @@ "end" :> JStr("2025-03-16")))),
       RequestLine(Some(JStr("1.0")), Some(JNum(10)), Some(JStr("core.open_daily")),
                   Some(JObj("date" :> JStr("2025-03-16")))),
       RequestLine(Some(JStr("2.0")), Some(JNum(11)), Some(JStr("core.task_detail")),
                   Some(JObj("task_id" :> JStr(<< "T", "-", "9" >>)))),
       RequestLine(Some(JStr("2.0")), Some(JNum(12)), Some(JStr("core.read_note")),
                   Some(JObj("note_id" :> JStr("v/none.md")))) >>

\* The vault directory when the daemon starts
ServerVaults ==
    { EmptyMap,
      [ path \in { "v/2025-03-15.md", "v/inbox.md" } |-> TextA ] }

\* main: the Domain over the vault, reindex_all (a failure is logged), then
\* run_server
InitServer ==
    /\ files \in ServerVaults
    /\ \E now \in ParseTimes :
          /\ data = reindex_all(EmptyIndex, files, now, "Ok").data
          /\ iter \in IterationOrders(reindex_all(EmptyIndex, files, now, "Ok").data.notes)
    /\ parsedBy = EmptyMap
    /\ lastOp = [ kind |-> "main" ]
    /\ steps = 0
    /\ ret = None
    /\ stdout = <<>>
    /\ loop = "running"
    /\ NoClient

\* raw_line.trim().is_empty()
IsBlank(line) == IF line.kind = "text" THEN trim(line.text) = <<>> ELSE FALSE

\* What one iteration of the loop leaves behind: the Domain, how the loop
\* goes on, and the response lines written
Iterated(d, fs, touched, status, written) ==
    [ data |-> d, files |-> fs, touched |-> touched, loop |-> status, written |-> written ]

\* writeln!(stdout, ...)? and stdout.flush()?; write is how they end
Written(d, fs, touched, response, write) ==
    IF write = "Err" THEN Iterated(d, fs, touched, "returned Err", <<>>)
    ELSE Iterated(d, fs, touched, "running", << response >>)

\* the Ok(request) arm of run_server
Responded(h, write) ==
    IF h.panic THEN Iterated(h.data, h.files, h.touched, "panicked", <<>>)
    ELSE IF h.response = None THEN Iterated(h.data, h.files, h.touched, "running", <<>>)
    ELSE Written(h.data, h.files, h.touched, h.response[1], write)

\* The body of the for loop of run_server for one line of stdin
Iteration(d, fs, order, tag_order, now, listing, write, line) ==
    IF line.kind = "bytes" THEN Iterated(d, fs, FALSE, "returned Ok", <<>>)
    ELSE IF IsBlank(line) THEN Iterated(d, fs, FALSE, "running", <<>>)
    ELSE IF from_str(line) = None
         THEN Written(d, fs, FALSE, RpcResponse_error(JNull, parse_error), write)
    ELSE Responded(handle_request(d, fs, order, tag_order, now, listing, from_str(line)[1]),
                   write)

\* the choices the environment has for a line: fs::read_dir may fail in a
\* reindex, writing to stdout may fail when a response is due
Listings(line) ==
    IF from_str(line) = None THEN { "Ok" }
    ELSE IF from_str(line)[1].method = "core.reindex" THEN { "Ok", "Err" } ELSE { "Ok" }

Writes(line) ==
    IF line.kind = "bytes" \/ IsBlank(line) THEN { "Ok" } ELSE { "Ok", "Err" }

\* The loop takes the next line of stdin and deals with it
Served(out, line, write) ==
    /\ data' = out.data
    /\ files' = out.files
    /\ iter' \in IF out.touched THEN IterationOrders(out.data.notes) ELSE { iter }
    /\ stdout' = stdout \o out.written
    /\ loop' = out.loop
    /\ lastOp' = [ kind |-> "line", line |-> line, request |-> from_str(line), write |-> write ]
    /\ steps' = steps + 1
    /\ UNCHANGED <<client, parsedBy, ret>>

ServeLine ==
    /\ loop = "running"
    /\ steps < MaxLines
    /\ \E k \in DOMAIN LinePool, now \in ParseTimes, tag_order \in TagOrders(data) :
         \E listing \in Listings(LinePool[k]), write \in Writes(LinePool[k]) :
            Served(Iteration(data, files, iter, tag_order, now, listing, write, LinePool[k]),
                   LinePool[k], write)

\* stdin is closed: lines() ends and run_server returns Ok(())
EndOfInput ==
    /\ loop = "running"
    /\ loop' = "returned Ok"
    /\ lastOp' = [ kind |-> "eof" ]
    /\ UNCHANGED <<client, data, parsedBy, steps, files, ret, iter, stdout>>

NextServer == ServeLine \/ EndOfInput

SpecServer == InitServer /\ [][NextServer]_vars

\* C25: every non-blank line that parses as a request carrying an id gets
\* exactly one response line, carrying that id, written before the next line
\* is read (responses are appended in the order of their requests); a blank
\* line produces nothing.  Stated for the lines whose response stdout accepts.
C25_OneResponsePerRequest ==
    [][ lastOp'.kind = "line" =>
          /\ IsBlank(lastOp'.line) => stdout' = stdout
          /\ IF lastOp'.request = None THEN TRUE
             ELSE (lastOp'.request[1].id # None /\ lastOp'.write = "Ok") =>
                     /\ Len(stdout') = Len(stdout) + 1
                     /\ SubSeq(stdout', 1, Len(stdout)) = stdout
                     /\ stdout'[Len(stdout')].id = lastOp'.request[1].id[1] ]_vars

\* C26: a well-formed request line without id is never answered, whatever
\* its jsonrpc field, method and params and whether its processing succeeds.
C26_NotificationsSilent ==
    [][ lastOp'.kind = "line" =>
          IF lastOp'.request = None THEN TRUE
          ELSE lastOp'.request[1].id = None => stdout' = stdout ]_vars

\* the methods dispatch knows, with the params members each requires as
\* strings and those of them that hold dates
KnownMethods ==
    [ core_reindex        |-> [ name |-> "core.reindex", strings |-> {}, dates |-> {} ],
      core_list_tasks     |-> [ name |-> "core.list_tasks", strings |-> {}, dates |-> {} ],
      core_task_detail    |-> [ name |-> "core.task_detail", strings |-> { "task_id" },
                                dates |-> {} ],
      core_items_for_tag  |-> [ name |-> "core.items_for_tag", strings |-> { "tag" },
                                dates |-> {} ],
      core_notes_in_range |-> [ name |-> "core.notes_in_range", strings |-> { "start", "end" },
                                dates |-> { "start", "end" } ],
      core_weekly_summary |-> [ name |-> "core.weekly_summary", strings |-> { "start", "end" },
                                dates |-> { "start", "end" } ],
      core_open_daily     |-> [ name |-> "core.open_daily", strings |-> { "date" },
                                dates |-> { "date" } ],
      core_read_note      |-> [ name |-> "core.read_note", strings |-> { "note_id" },
                                dates |-> {} ],
      core_write_note     |-> [ name |-> "core.write_note", strings |-> { "note_id", "content" },
                                dates |-> {} ] ]

MethodOf(request) ==
    { m \in { KnownMethods[k] : k \in DOMAIN KnownMethods } : m.name = request.method }

\* the params of the request lack a required member, hold a non-string in
\* its place, or hold a date member that is no YYYY-MM-DD date
BadParams(request, m) ==
    LET members == IF request.params = None THEN EmptyMap
                   ELSE IF request.params[1].t = "obj" THEN request.params[1].v ELSE EmptyMap
    IN  \/ /\ request.params # None
           /\ request.params[1].t # "obj"
        \/ \E key \in m.strings :
              IF key \in DOMAIN members THEN members[key].t # "str" ELSE TRUE
        \/ \E key \in m.dates :
              IF key \in DOMAIN members
              THEN IF members[key].t = "str"
                   THEN members[key].v \notin { "2025-03-14", "2025-03-15", "2025-03-16" }
                   ELSE FALSE
              ELSE FALSE

\* the response just written is an error response with this id and code
LastResponseIs(old, new, id, code) ==
    /\ Len(new) = Len(old) + 1
    /\ new[Len(new)].id = id
    /\ new[Len(new)].result = None
    /\ new[Len(new)].error = Some([ code |-> code ])

C28_LoopSurvives ==
    [][ (lastOp'.kind = "line" /\ lastOp'.write = "Ok") =>
          (lastOp'.line.kind # "bytes" => loop' = "running") ]_vars

---------------------------------------------------------------------------
(* The incrementally maintained store against a rebuild, under Spec *)

\* The indexed notes in the order of their most recent upserts.  With two
\* note ids the note upserted last, if any note is indexed after an upsert,
\* is the note of the last call, and a remove leaves at most one note indexed.
UpsertOrder ==
    LET indexed == SelectSeq(<< "v/2025-03-15.md", "v/inbox.md" >>,
                             LAMBDA n : n \in DOMAIN parsedBy)
    IN  IF lastOp.kind = "upsert"
        THEN SelectSeq(indexed, LAMBDA n : n # lastOp.note) \o << lastOp.note >>
        ELSE indexed

\* a fresh store into which the ParsedNotes history[order[1]], ... are upserted
RECURSIVE Rebuild(_, _)
Rebuild(history, order) ==
    IF order = <<>> THEN EmptyIndex
    ELSE upsert_parsed_note(Rebuild(history, SubSeq(order, 1, Len(order) - 1)),
                            history[order[Len(order)]])

\* C29: after any sequence of upsert_parsed_note and remove_note calls every
\* query returns the same results, as multisets, as a fresh store into which
\* the most recently upserted ParsedNote of each indexed note is upserted once,
\* in the order of those most recent upserts.
C29_EqualsRebuild ==
    AnswersAsBags(data) = AnswersAsBags(Rebuild(parsedBy, UpsertOrder))

---------------------------------------------------------------------------
(* The parser applied to notes of every heading structure *)

\* Heading lines and near misses: the two sections in either case and
\* indented, other names, no blank after the hashes, three hashes, and
\* hashes followed by blanks only
HeadingLines ==
    { TasksHeading1,
      << " ", "#", "#", " ", "T", "A", "S", "K", "S", " " >>,
      LogHeading,
      << " ", " ", " ", "#", "#", " ", "l", "o", "g" >>,
      << "#", "#", " ", "N", "o", "t", "e", "s" >>,
      << "#", "#", " ", "T", "a", "s", "k", "s", " ", "d", "o", "n", "e" >>,
      << "#", "#", "T", "a", "s", "k", "s" >>,
      << "#", "#", "#", " ", "L", "o", "g" >>,
      << "#", "#", " ", " " >> }

\* a task line and a log item, as they may stand under any heading
SectionBody == << Open1, Item \o << "d", "i", "d", " " >> \o Ref2 >>

\* Notes of two headings, with the same items before, between and after them
SectionTexts ==
    { Unlines(SectionBody \o << h1 >> \o SectionBody \o << h2 >> \o SectionBody) :
        h1 \in HeadingLines, h2 \in HeadingLines }

InitSections ==
    /\ data = EmptyIndex
    /\ parsedBy = EmptyMap
    /\ lastOp = [ kind |-> "new", note |-> "", parsed |-> None ]
    /\ steps = 0
    /\ \E text \in SectionTexts : files = MapInsert(EmptyMap, "v/2025-03-15.md", text)
    /\ ret = None
    /\ iter = <<>>
    /\ stdout = <<>>
    /\ loop = "none"
    /\ NoClient

NextSections == ParseNote

SpecSections == InitSections /\ [][NextSections]_vars

\* The name of the heading a line holds, if the line trimmed at both ends
\* begins with "## "
HeadingName(line) ==
    IF starts_with(trim(line), << "#", "#", " " >>)
    THEN Some(trim(SubSeq(trim(line), 4, Len(trim(line)))))
    ELSE None

\* The name of the heading a line holds, if its text after leading
\* whitespace begins with "## "
HeadingNameAsWorded(line) ==
    IF starts_with(trim_start(line), << "#", "#", " " >>)
    THEN Some(trim(SubSeq(trim_start(line), 4, Len(trim_start(line)))))
    ELSE None

\* the section a heading name stands for, letter case ignored
NamedSection(name) ==
    LET lower == [ k \in DOMAIN name |-> to_ascii_lowercase(name[k]) ]
    IN  IF lower = << "t", "a", "s", "k", "s" >> THEN "Tasks"
        ELSE IF lower = << "l", "o", "g" >> THEN "Log"
        ELSE "Other"

\* the section in force when line i is scanned; names[j] is the heading name
\* of line j, if line j is a heading
SectionUnder(names, i) ==
    LET hs == { j \in 1 .. i - 1 : names[j] # None }
    IN  IF hs = {} THEN "Other"
        ELSE NamedSection(names[CHOOSE j \in hs : \A h \in hs : h <= j][1])

HasHashes(str) == \E k \in 1 .. Len(str) - 1 : str[k] = "#" /\ str[k + 1] = "#"

\* The parse of the lines all respects the sections given by the heading
\* names: one task per task line scanned in Tasks, log entries and mentions
\* only from lines scanned in Log, no heading line captured, and nothing at
\* all when no line is a Tasks or Log heading.
SectionsRespected(all, names, parsed) ==
    /\ Len(parsed.tasks) =
          Cardinality({ i \in DOMAIN all :
                          /\ names[i] = None
                          /\ SectionUnder(names, i) = "Tasks"
                          /\ TASK_LINE_RE(trim(all[i])) # None })
    /\ \A k \in DOMAIN parsed.log_entries :
          /\ parsed.log_entries[k].line_number \in DOMAIN all
          /\ names[parsed.log_entries[k].line_number] = None
          /\ SectionUnder(names, parsed.log_entries[k].line_number) = "Log"
          /\ ~HasHashes(parsed.log_entries[k].content_md)
    /\ \A k \in DOMAIN parsed.mentions :
          /\ parsed.mentions[k].log_entry_id # None
          /\ SectionUnder(names, parsed.mentions[k].log_entry_id[1][2]) = "Log"
    /\ \A k \in DOMAIN parsed.tasks : ~HasHashes(parsed.tasks[k].title)
    /\ (\A j \in DOMAIN all :
           IF names[j] = None THEN TRUE ELSE NamedSection(names[j][1]) = "Other")
          => /\ parsed.tasks = <<>>
             /\ parsed.log_entries = <<>>
             /\ parsed.mentions = <<>>

\* C30, as worded: the section state machine with a heading being a line
\* whose text after leading whitespace begins with "## ".
C30_AsWorded ==
    (ret # None /\ ~ret[1].panic) =>
        LET all == lines(files[lastOp.note])
        IN  SectionsRespected(all, [ j \in DOMAIN all |-> HeadingNameAsWorded(all[j]) ],
                              ret[1].parsed[1])

\* C30: the parser starts in section Other; a line that, trimmed at both
\* ends, begins with "## " sets the section to Tasks or Log when its name is
\* "tasks" or "log" in any letter case and to Other for any other name, and is
\* never captured; tasks come only from lines scanned in Tasks, log entries and
\* mentions only from lines scanned in Log; a note with neither heading yields
\* no tasks, log entries or mentions.
C30_SectionMachine ==
    (ret # None /\ ~ret[1].panic) =>
        LET all == lines(files[lastOp.note])
        IN  SectionsRespected(all, [ j \in DOMAIN all |-> HeadingName(all[j]) ],
                              ret[1].parsed[1])

\* A note with an indented upper-case Tasks heading and then an indented
\* Log heading: one task, and log entries with mentions, were captured, and
\* the items before the first heading were not.
C30_Witness ==
    /\ ret # None
    /\ ~ret[1].panic
    /\ lines(files[lastOp.note])[3] = << " ", "#", "#", " ", "T", "A", "S", "K", "S", " " >>
    /\ lines(files[lastOp.note])[6] = << " ", " ", " ", "#", "#", " ", "l", "o", "g" >>
    /\ Len(ret[1].parsed[1].tasks) = 1
    /\ Len(ret[1].parsed[1].log_entries) = 2
    /\ Len(ret[1].parsed[1].mentions) = 2
    /\ \A k \in DOMAIN ret[1].parsed[1].log_entries :
          ret[1].parsed[1].log_entries[k].line_number > 6

---------------------------------------------------------------------------
(* The parser on items followed by indented lines *)

ItemStarts ==
    { Item \o << "[", " ", "]", " " >> \o Ref1 \o << " ", "A", "b", " ", "#", "x" >>,
      Item \o << "[", "x", "]", " " >> \o Ref1,
      Item \o << "d", "i", "d", " " >> \o Ref1,
      Item }

\* Indented lines after an item: none, one, or a tab-indented line and a line
\* that begins with a dash without a space
IndentedRuns ==
    { <<>>,
      << << " ", " ", "m", "o", "r", "e", " ", "#", "y" >> >>,
      << << "\t", "t", "h", "e", "n", " " >> \o Ref2, << " ", " ", "-", "x" >> >> }

\* What ends a run: the end of the text, a blank line, a line of blanks, a
\* line that is not indented, an indented list item, an indented heading
RunStoppers ==
    { <<>>,
      << <<>> >>,
      << << " ", " ", " " >> >>,
      << << "p", "l", "a", "i", "n" >> >>,
      << << " ", " " >> \o Item \o << "n", "e", "x", "t", " " >> \o Ref2 >>,
      << << " ", " " >> \o LogHeading >> }

AfterStopper == << " ", " ", "a", "f", "t", "e", "r", " " >> \o Ref2

ContinuationTexts ==
    { Unlines(<< h, first >> \o run \o stop \o << AfterStopper >>) :
        h \in { TasksHeading1, LogHeading }, first \in ItemStarts,
        run \in IndentedRuns, stop \in RunStoppers }

InitContinuation ==
    /\ data = EmptyIndex
    /\ parsedBy = EmptyMap
    /\ lastOp = [ kind |-> "new", note |-> "", parsed |-> None ]
    /\ steps = 0
    /\ \E text \in ContinuationTexts : files = MapInsert(EmptyMap, "v/2025-03-15.md", text)
    /\ ret = None
    /\ iter = <<>>
    /\ stdout = <<>>
    /\ loop = "none"
    /\ NoClient

NextContinuation == ParseNote

SpecContinuation == InitContinuation /\ [][NextContinuation]_vars

\* A line that can be folded into the item before it: it begins with a space
\* or a tab, is not blank, and its text after leading whitespace begins with
\* neither "## " nor "- "
Foldable(line) ==
    /\ line # <<>>
    /\ line[1] \in { " ", "\t" }
    /\ \E k \in DOMAIN line : line[k] \notin White
    /\ LET k == CHOOSE k \in DOMAIN line :
                    line[k] \notin White /\ \A j \in 1 .. k - 1 : line[j] \in White
       IN  /\ ~starts_with(SubSeq(line, k, Len(line)), << "#", "#", " " >>)
           /\ ~starts_with(SubSeq(line, k, Len(line)), Item)

\* The first line after line i that is outside the maximal run of foldable
\* lines following line i
RunEnd(all, i) ==
    CHOOSE e \in i + 1 .. Len(all) + 1 :
        /\ \A j \in i + 1 .. e - 1 : Foldable(all[j])
        /\ e <= Len(all) => ~Foldable(all[e])

\* Whether the main scan captures line i as an item: a task line in Tasks, a
\* list item in Log
Captured(all, i) ==
    \/ SectionAt(all, i) = "Tasks" /\ TASK_LINE_RE(trim(all[i])) # None
    \/ SectionAt(all, i) = "Log" /\ starts_with(trim_start(all[i]), Item)

\* The lines the main scan captures, from line i on: after an item the scan
\* goes on at the first line outside the item's run
RECURSIVE ItemLines(_, _)
ItemLines(all, i) ==
    IF i > Len(all) THEN <<>>
    ELSE IF Captured(all, i) THEN << i >> \o ItemLines(all, RunEnd(all, i))
    ELSE ItemLines(all, i + 1)

\* The remainder of the item on a line: the text after the task id, or after
\* the list marker and the clock time
ItemRemainder(all, i) ==
    IF SectionAt(all, i) = "Tasks" THEN trim(TASK_LINE_RE(trim(all[i]))[1].rest)
    ELSE RemainderLine(TIME_PREFIX_RE(all[i]), all[i])

\* texts joined by line breaks
RECURSIVE JoinedByLineBreaks(_)
JoinedByLineBreaks(texts) ==
    IF Len(texts) = 1 THEN texts[1]
    ELSE texts[1] \o << "\n" >> \o JoinedByLineBreaks(Tail(texts))

\* The remainder of the item on line i with the trimmed lines of its run
\* appended, every one after a line break
FoldedAsWorded(all, i) ==
    JoinedByLineBreaks(<< ItemRemainder(all, i) >>
                         \o [ k \in 1 .. RunEnd(all, i) - i - 1 |-> trim(all[i + k]) ])

\* The same with no line break before the first line of the run when the
\* remainder is empty
Folded(all, i) ==
    LET run == [ k \in 1 .. RunEnd(all, i) - i - 1 |-> trim(all[i + k]) ]
    IN  IF ItemRemainder(all, i) # <<>> THEN JoinedByLineBreaks(<< ItemRemainder(all, i) >> \o run)
        ELSE IF run = <<>> THEN <<>>
        ELSE JoinedByLineBreaks(run)

\* The parse result agrees with the items and folded texts given: the tasks
\* and log entries are those of the item lines in order, a task's title and
\* tags and an entry's body, tags, references and excerpt are those of its
\* folded text, and an entry carries the number of its item line
ItemsAgree(all, items, folded, parsed) ==
    LET section(k) == SectionAt(all, items[k])
        taskLines == SelectSeq([ k \in DOMAIN items |-> k ], LAMBDA k : section(k) = "Tasks")
        logLines == SelectSeq([ k \in DOMAIN items |-> k ], LAMBDA k : section(k) = "Log")
    IN  /\ Len(parsed.tasks) = Len(taskLines)
        /\ Len(parsed.log_entries) = Len(logLines)
        /\ \A n \in DOMAIN taskLines :
              /\ parsed.tasks[n].title = split_title_and_tags(folded[taskLines[n]]).title
              /\ parsed.tasks[n].tags = split_title_and_tags(folded[taskLines[n]]).tags
        /\ \A n \in DOMAIN logLines :
              LET entry == parsed.log_entries[n]
                  text == folded[logLines[n]]
              IN  /\ entry.line_number = items[logLines[n]]
                  /\ entry.content_md = split_title_and_tags(text).title
                  /\ entry.tags = split_title_and_tags(text).tags
                  /\ entry.task_ids = Tokens(text)
                  /\ \A m \in DOMAIN parsed.mentions :
                        parsed.mentions[m].log_entry_id = Some(entry.id)
                            => parsed.mentions[m].excerpt = text

\* C31, as worded: the lines folded into a captured item are the maximal run
\* of foldable lines that follow it, their trimmed texts are appended to the
\* item's remainder joined by line breaks, and the first line outside the run
\* is handled by the main scan.
C31_AsWorded ==
    (ret # None /\ ~ret[1].panic) =>
        LET all == lines(files[lastOp.note])
            items == ItemLines(all, 1)
        IN  ItemsAgree(all, items, [ k \in DOMAIN items |-> FoldedAsWorded(all, items[k]) ],
                       ret[1].parsed[1])

\* C31: the lines folded into a captured task line or log list item are
\* exactly the maximal run of immediately following lines each of which
\* begins with a space or tab, is not blank, and whose text after leading
\* whitespace begins with neither "## " nor "- "; their trimmed texts are
\* appended to the item's remainder, a line break before each except that an
\* empty remainder is followed by none; each line is consumed by at most one
\* item and the first line outside the run is handled by the main scan.
C31_Continuation ==
    (ret # None /\ ~ret[1].panic) =>
        LET all == lines(files[lastOp.note])
            items == ItemLines(all, 1)
        IN  ItemsAgree(all, items, [ k \in DOMAIN items |-> Folded(all, items[k]) ],
                       ret[1].parsed[1])

\* A log item with a run of two lines stopped by an indented list item, which
\* is captured as an entry of its own with the line after it folded in
C31_Witness ==
    /\ ret # None
    /\ ~ret[1].panic
    /\ Len(ret[1].parsed[1].log_entries) = 2
    /\ ret[1].parsed[1].log_entries[1].line_number = 2
    /\ ret[1].parsed[1].log_entries[2].line_number = 5
    /\ ret[1].combined[1] =
          << "d", "i", "d", " " >> \o Ref1 \o << "\n", "t", "h", "e", "n", " " >> \o Ref2
              \o << "\n", "-", "x" >>
    /\ "\n" \in Range(ret[1].combined[2])
    /\ ret[1].parsed[1].log_entries[2].task_ids = << << "T", "-", "2" >>, << "T", "-", "2" >> >>

---------------------------------------------------------------------------
(* split_title_and_tags on text fragments *)

MaxFragment == 5

FragmentChars == { "#", "a", " ", "\n" }

RECURSIVE TextsUpTo(_, _)
TextsUpTo(chars, n) ==
    IF n = 0 THEN { <<>> }
    ELSE LET shorter == TextsUpTo(chars, n - 1)
         IN  shorter \cup { Append(text, c) : text \in shorter, c \in chars }

Fragments == TextsUpTo(FragmentChars, MaxFragment)

InitSplit ==
    /\ data = EmptyIndex
    /\ parsedBy = EmptyMap
    /\ \E input \in Fragments : lastOp = [ kind |-> "fragment", input |-> input ]
    /\ steps = 0
    /\ files = EmptyMap
    /\ ret = None
    /\ iter = <<>>
    /\ stdout = <<>>
    /\ loop = "none"
    /\ NoClient

\* split_title_and_tags(input)
SplitTitleAndTags ==
    /\ ret = None
    /\ ret' = Some(split_title_and_tags(lastOp.input))
    /\ lastOp' = [ kind |-> "split", input |-> lastOp.input ]
    /\ UNCHANGED <<client, data, parsedBy, steps, files, iter, stdout, loop>>

NextSplit == SplitTitleAndTags

SpecSplit == InitSplit /\ [][NextSplit]_vars

\* The whitespace-delimited tokens of a text, in order: the maximal runs of
\* characters that are not whitespace
WordStarts(str) ==
    { p \in DOMAIN str : str[p] \notin White /\ (p = 1 \/ str[p - 1] \in White) }

WordFrom(str, p) ==
    LET q == CHOOSE q \in p .. Len(str) :
                 /\ \A j \in p .. q : str[j] \notin White
                 /\ (q = Len(str) \/ str[q + 1] \in White)
    IN  SubSeq(str, p, q)

Words(str) ==
    LET starts == WordStarts(str)
        nth(k) == CHOOSE p \in starts : Cardinality({ o \in starts : o < p }) = k - 1
    IN  [ k \in 1 .. Cardinality(starts) |-> WordFrom(str, nth(k)) ]

\* words with one space between neighbours
RECURSIVE SpaceJoined(_)
SpaceJoined(words) ==
    IF words = <<>> THEN <<>>
    ELSE IF Len(words) = 1 THEN words[1]
    ELSE SpaceJoined(SubSeq(words, 1, Len(words) - 1)) \o << " " >> \o words[Len(words)]

\* the text without the whitespace at its two ends
Stripped(str) ==
    LET inner == { p \in DOMAIN str : str[p] \notin White }
    IN  IF inner = {} THEN <<>>
        ELSE SubSeq(str, CHOOSE p \in inner : \A o \in inner : p <= o,
                         CHOOSE p \in inner : \A o \in inner : p >= o)

IsTagWord(word) == word[1] = "#" /\ Len(word) > 1

\* C32: for any text fragment the extracted tags are exactly the
\* whitespace-delimited tokens that begin with # and have a non-empty
\* remainder, with the # removed, in order of appearance with duplicates kept;
\* the title/body is the remaining tokens joined by single spaces, in order;
\* when no non-tag token exists, the title/body is the trimmed fragment while
\* the tags are still extracted.
C32_TagTitleSplit ==
    ret # None =>
        LET words == Words(lastOp.input)
            tagWords == SelectSeq(words, IsTagWord)
            others == SelectSeq(words, LAMBDA word : ~IsTagWord(word))
        IN  /\ ret[1].tags = [ k \in DOMAIN tagWords |-> SubSeq(tagWords[k], 2, Len(tagWords[k])) ]
            /\ ret[1].title = IF others = <<>> THEN Stripped(lastOp.input)
                              ELSE SpaceJoined(others)

\* The fragment `#a #a`: the tag a twice, and the trimmed fragment as title;
\* or a fragment of a word, a line break, a tag and a lone #
C32_Witness ==
    /\ ret # None
    /\ \/ /\ lastOp.input = << "#", "a", " ", "#", "a" >>
          /\ ret[1].tags = << << "a" >>, << "a" >> >>
          /\ ret[1].title = << "#", "a", " ", "#", "a" >>
       \/ /\ lastOp.input = << "a", "\n", "#", "a", " " >>
          /\ ret[1].tags = << << "a" >> >>
          /\ ret[1].title = << "a" >>

---------------------------------------------------------------------------
(* Log items and their clock time, under SpecParser *)

\* The text of a list item: what follows the list marker "- " that the line
\* begins with after its leading whitespace
ItemText(line) == Stripped(SubSeq(trim_start(line), 3, Len(trim_start(line))))

\* A clock-time token: H:MM or HH:MM, then optionally am or pm in any letter
\* case, with at most one blank before it
IsClockTime(token) ==
    \E h \in { 1, 2 } :
        /\ Len(token) >= h + 3
        /\ \A k \in 1 .. h : token[k] \in Digits
        /\ token[h + 1] = ":"
        /\ token[h + 2] \in Digits
        /\ token[h + 3] \in Digits
        /\ LET suffix == SubSeq(token, h + 4, Len(token))
               letters == IF suffix # <<>> /\ suffix[1] \in White THEN Tail(suffix) ELSE suffix
           IN  \/ suffix = <<>>
               \/ [ k \in DOMAIN letters |-> to_ascii_lowercase(letters[k]) ]
                      \in { << "a", "m" >>, << "p", "m" >> }

\* The length of the clock-time token an item text starts with, suffix
\* included; 0 when it starts with none
ClockTimeLen(text) ==
    LET ends == { n \in 1 .. Len(text) :
                    /\ IsClockTime(SubSeq(text, 1, n))
                    /\ (n = Len(text) \/ text[n + 1] \in White) }
    IN  IF ends = {} THEN 0 ELSE CHOOSE n \in ends : \A m \in ends : m <= n

\* C33: in the Log section a line yields a log entry if and only if its text
\* after leading whitespace begins with "- "; when the item text starts with
\* a clock-time token H:MM or HH:MM with an optional am/pm suffix in any
\* letter case, the entry's timestamp is that token and the token is not part
\* of the body; otherwise the timestamp is absent and the body is the item
\* text without the list marker (the body checked on items without
\* continuation lines, tags removed).
C33_LogEntryClockTime ==
    (ret # None /\ ~ret[1].panic) =>
        LET all == lines(files[lastOp.note])
            entries == ret[1].parsed[1].log_entries
        IN  /\ { entries[k].line_number : k \in DOMAIN entries } =
                  { i \in DOMAIN all :
                      SectionAt(all, i) = "Log" /\ starts_with(trim_start(all[i]), Item) }
            /\ \A k \in DOMAIN entries :
                  LET i == entries[k].line_number
                      text == ItemText(all[i])
                      n == ClockTimeLen(text)
                  IN  /\ entries[k].timestamp = IF n = 0 THEN None ELSE Some(SubSeq(text, 1, n))
                      /\ RunEnd(all, i) = i + 1 =>
                            entries[k].content_md =
                                split_title_and_tags(SubSeq(text, n + 1, Len(text))).title

---------------------------------------------------------------------------
(* open_daily and the files of the vault, under SpecDomain *)

\* C34: open_daily(date) never overwrites an existing file: every file of the
\* vault, the one at the canonical path <root>/<YYYY-MM-DD>.md included and
\* indexed or not, keeps its content, and a note returned for the canonical
\* path carries the content of the file found there; the only file the call
\* can add is the template at the canonical path, and it does so only when no
\* note dated date is indexed and no file exists at that path.
C34_OpenDailyKeepsFiles ==
    [][ lastOp'.kind = "open_daily" =>
          LET date == lastOp'.date
              path == daily_path(date)
          IN  /\ \A p \in DOMAIN files : p \in DOMAIN files' /\ files'[p] = files[p]
              /\ DOMAIN files' \subseteq DOMAIN files \cup { path }
              /\ (path \in DOMAIN files /\ ret'[1].kind = "Ok" /\ ret'[1].note[1].id = path)
                    => ret'[1].note[1].content = files[path]
              /\ path \notin DOMAIN files =>
                    IF \E id \in DOMAIN data.notes : data.notes[id].date = Some(date)
                    THEN files' = files
                    ELSE /\ path \in DOMAIN files'
                         /\ files'[path] = daily_template(date) ]_vars

\* open_daily found a file at the canonical path that was not indexed, with
\* content other than the template, and indexed it as it was
C34_Witness ==
    /\ lastOp.kind = "open_daily"
    /\ ret[1].kind = "Ok"
    /\ lastOp.prev.kind = "new"
    /\ ret[1].note[1].id = daily_path(lastOp.date)
    /\ files[daily_path(lastOp.date)] = TextA
    /\ get_note(data, daily_path(lastOp.date)) # None
    /\ get_note(data, daily_path(lastOp.date))[1].content = TextA

---------------------------------------------------------------------------
(* reindex_all over a vault whose notes refer to each other's tasks and whose
   files may be deleted outside the program *)

\* A note whose log mentions the task that TextA defines
TextM ==
    Unlines(<< LogHeading, Item \o << "s", "a", "w", " " >> \o Ref1 \o << " ", "#", "y" >> >>)

MirrorPaths == { "v/2025-03-15.md", "v/inbox.md" }

\* The vault directory when the Domain is constructed: two notes, each one
\* defining the task T-1 or only mentioning it
MirrorVaults == [ MirrorPaths -> { TextA, TextM } ]

InitMirror ==
    /\ data = EmptyIndex
    /\ parsedBy = EmptyMap
    /\ lastOp = [ kind |-> "new", note |-> "", parsed |-> None ]
    /\ steps = 0
    /\ files \in MirrorVaults
    /\ ret = None
    /\ iter = <<>>
    /\ stdout = <<>>
    /\ loop = "none"
    /\ NoClient

\* The user deletes a file of the vault
DeleteFile ==
    \E path \in DOMAIN files :
        /\ steps < MaxDomainSteps
        /\ files' = MapRemove(files, path)
        /\ lastOp' = [ kind |-> "delete", note |-> path, parsed |-> None,
                       date |-> 0, content |-> <<>>, prev |-> Previous ]
        /\ steps' = steps + 1
        /\ UNCHANGED <<client, data, parsedBy, ret, iter, stdout, loop>>

NextMirror == ReindexAllIo \/ DeleteFile

SpecMirror == InitMirror /\ [][NextMirror]_vars

MirrorTaskIds == { << "T", "-", "1" >>, << "T", "-", "2" >> }

\* The answers of every query of the store, for the notes, task ids and tags
\* of these vaults
VaultAnswers(d) ==
    [ get_note      |-> [ n \in Range(SortedPaths) |-> get_note(d, n) ],
      list_tasks    |-> list_tasks(d, DefaultFilter),
      notes_by_date |-> [ r \in DateRanges |-> list_notes_by_date(d, r) ],
      get_task      |-> [ t \in MirrorTaskIds |-> get_task(d, t) ],
      log_entries   |-> [ t \in MirrorTaskIds |-> get_log_entries_for_task(d, t) ],
      mentions      |-> [ t \in MirrorTaskIds |-> get_mentions_for_task(d, t) ],
      tags          |-> (DOMAIN d.tags_to_tasks) \cup (DOMAIN d.tags_to_log_entries),
      items_for_tag |-> [ tag \in { << "x" >>, << "y" >> } |-> items_for_tag(d, tag) ] ]

\* C35: reindexing is idempotent over an unchanged vault: a successful
\* reindex_all that directly follows a successful reindex_all leaves every
\* query with the answer it had after the first, whichever note defines a task
\* that log entries of other notes mention.
C35_ReindexIdempotent ==
    [][ ( /\ lastOp.kind = "reindex_all" /\ ret[1].kind = "Ok"
          /\ lastOp'.kind = "reindex_all" /\ ret'[1].kind = "Ok" )
            => VaultAnswers(data') = VaultAnswers(data) ]_vars

\* C36: the index mirrors the vault after a reindex: right after a successful
\* reindex_all the set of indexed note ids equals the set of note paths the
\* vault lists, so a note whose file was deleted since the previous reindex is
\* no longer returned by read_note or notes_in_range, and no task, log entry
\* or mention of it is returned by any query.
C36_IndexMirrorsVault ==
    (lastOp.kind = "reindex_all" /\ ret[1].kind = "Ok") =>
        /\ Indexed(data) = Range(list_note_paths(files))
        /\ DOMAIN data.notes = Range(list_note_paths(files))
        /\ \A id \in DOMAIN data.tasks :
              data.tasks[id].source_note_id # None
                  /\ data.tasks[id].source_note_id[1] \in Range(list_note_paths(files))
        /\ \A id \in DOMAIN data.log_entries :
              data.log_entries[id].note_id \in Range(list_note_paths(files))
        /\ \A t \in MirrorTaskIds : \A k \in DOMAIN get_mentions_for_task(data, t) :
              get_mentions_for_task(data, t)[k].note_id \in Range(list_note_paths(files))

---------------------------------------------------------------------------
(* Rejected requests, under SpecServer *)

\* the request names a task or a note that the index d does not hold
UnknownId(request, d) ==
    LET members == IF request.params = None THEN EmptyMap ELSE request.params[1].v
    IN  \/ /\ request.method = "core.task_detail"
           /\ members["task_id"].v \notin DOMAIN d.tasks
        \/ /\ request.method \in { "core.read_note", "core.write_note" }
           /\ members["note_id"].v \notin DOMAIN d.note_content

\* The request is one that is answered with an error for its jsonrpc field,
\* its method, its params or the id it names
Rejected(request, d) ==
    \/ request.jsonrpc # Some("2.0")
    \/ /\ request.id # None
       /\ IF MethodOf(request) = {} THEN TRUE
          ELSE IF \E m \in MethodOf(request) : BadParams(request, m) THEN TRUE
          ELSE UnknownId(request, d)

\* C37: a request answered with an error because its jsonrpc field is not
\* "2.0", its method is unknown, its params are invalid, or it names an
\* unknown task or note id leaves the index and every vault file exactly as
\* they were, and what is written for it is an error response.
C37_RejectedHasNoEffect ==
    [][ lastOp'.kind = "line" =>
          IF lastOp'.request = None THEN TRUE
          ELSE Rejected(lastOp'.request[1], data) =>
                  /\ data' = data
                  /\ files' = files
                  /\ lastOp'.write = "Ok" =>
                        /\ Len(stdout') = Len(stdout) + 1
                        /\ stdout'[Len(stdout')].error # None ]_vars

\* An open_daily request with jsonrpc "1.0" for a day without a file was
\* answered with an error, after a write_note request for a note that is not
\* indexed was; the vault has no file
C37_Witness ==
    /\ lastOp.kind = "line"
    /\ lastOp.request # None
    /\ lastOp.request[1].method = "core.open_daily"
    /\ lastOp.request[1].jsonrpc = Some("1.0")
    /\ Len(stdout) = 2
    /\ stdout[1].error # None
    /\ stdout[1].id.t = "num"
    /\ stdout[1].id.v = 7
    /\ stdout[2].error = Some([ code |-> -32600 ])
    /\ DOMAIN files = {}

---------------------------------------------------------------------------
(* Duplicates in query results, under Spec *)

\* every element of the Vec occurs once
NoDuplicates(v) == \A i, j \in DOMAIN v : v[i] = v[j] => i = j

\* C38: in every reachable state, for every ParsedNote the parser can produce
\* (a tag may repeat within one task or log entry, a task id within one log
\* entry body), items_for_tag(tag) returns each task and each log entry at
\* most once and get_log_entries_for_task(T) returns each log entry at most
\* once.
C38_NoDuplicateResults ==
    /\ \A tag \in Tags :
          /\ NoDuplicates(items_for_tag(data, tag).tasks)
          /\ NoDuplicates(items_for_tag(data, tag).log_entries)
    /\ \A t \in TaskIds : NoDuplicates(get_log_entries_for_task(data, t))

---------------------------------------------------------------------------
(* The terminal client of src/: the Model and the update function of tea.rs *)

\* Upper bound on the number of blocks of a Model.
MaxBlocks == 12

\* model::Block
Block(content) == [ tags |-> <<>>, content |-> << content >>, editing_block |-> FALSE ]

\* A Model in the main view with n blocks and the cursor on block c (from 0)
ModelOf(n, c) ==
    [ running_state |-> "Main",
      blocks |-> [ i \in 1 .. n |-> Block(i) ],
      block_cursor |-> c ]

\* tea::update on a Model with at least one block: the Update returned, or a
\* panic (todo!()); given is the Model behind the shared reference after the
\* call, which the function cannot write to
update(m, msg) ==
    LET len == Len(m.blocks)
        new_cursor ==
            IF msg = "MoveDown"
            THEN IF m.block_cursor + 1 > len THEN 0 ELSE m.block_cursor + 1
            ELSE IF m.block_cursor = 0 THEN len - 1 ELSE m.block_cursor - 1
    IN  IF msg \in { "Quit", "AddBlock" }
        THEN [ panic |-> TRUE, model |-> None, message |-> None, given |-> m ]
        ELSE [ panic |-> FALSE,
               model |-> Some([ m EXCEPT !.block_cursor = new_cursor ]),
               message |-> None,
               given |-> m ]

\* A Model with n >= 1 blocks and the cursor on one of them
InitTea ==
    /\ data = EmptyIndex
    /\ parsedBy = EmptyMap
    /\ lastOp = [ kind |-> "new" ]
    /\ steps = 0
    /\ files = EmptyMap
    /\ ret = None
    /\ iter = <<>>
    /\ stdout = <<>>
    /\ loop = "none"
    /\ \E n \in 1 .. MaxBlocks, c \in 0 .. MaxBlocks - 1 :
          c < n /\ model = Some(ModelOf(n, c))
    /\ page = None
    /\ stack = [ frames |-> <<>>, overflow |-> FALSE ]

\* One turn of the inner loop of main: update(&current_model, msg), the
\* returned model becoming the current one
Update(msg) ==
    /\ ~update(model[1], msg).panic
    /\ model' = update(model[1], msg).model
    /\ lastOp' = [ kind |-> "update", msg |-> msg, given |-> update(model[1], msg).given ]
    /\ UNCHANGED <<data, parsedBy, steps, files, ret, iter, stdout, loop, page, stack>>

MoveDown == Update("MoveDown")

MoveUp == Update("MoveUp")

NextTea == MoveDown \/ MoveUp

SpecTea == InitTea /\ [][NextTea]_vars

\* C39: for a model with n >= 1 blocks and block_cursor < n, after any
\* sequence of MoveDown and MoveUp messages block_cursor is still < n;
\* MoveDown on the last block moves the cursor to 0 and MoveUp on block 0
\* moves it to n - 1; update returns a new model and leaves the model it was
\* given unchanged.
C39_CursorInBounds ==
    [][ lastOp'.kind = "update" =>
          LET n == Len(model[1].blocks)
              c == model[1].block_cursor
          IN  /\ lastOp'.given = model[1]
              /\ model'[1].blocks = model[1].blocks
              /\ c < n =>
                    /\ model'[1].block_cursor < n
                    /\ (lastOp'.msg = "MoveDown" /\ c = n - 1) => model'[1].block_cursor = 0
                    /\ (lastOp'.msg = "MoveUp" /\ c = 0) => model'[1].block_cursor = n - 1 ]_vars

---------------------------------------------------------------------------
(* yap-tui: the Page over the BlockTree of yap-core, and blocks_as_tree_item.
   A node id (a Uuid) is a number, the root's being 0; a TreeItem is
   [identifier, text, children]. *)

\* Upper bound on the number of blocks added to a Page.
MaxPageBlocks == 4

\* The number of calls of make_tree_item the thread's stack has room for.
MaxStack == 3

\* block::Block::new(content, node_id)
CoreBlock(content) == [ content |-> content ]

\* Node::new(id, Some(block))
Node(id, block) == [ node_id |-> id, value |-> Some(block), children |-> <<>> ]

\* BlockTree::new(root_text): a tree holding the root block
BlockTree_new(root_text) ==
    [ root |-> Some(0), nodes |-> 0 :> Node(0, CoreBlock(root_text)) ]

\* BlockTree::get_root
get_root(tree) == tree.nodes[tree.root[1]]

\* BlockTree::get_node_by_id
get_node_by_id(tree, id) == IF id \in DOMAIN tree.nodes THEN Some(tree.nodes[id]) ELSE None

\* BlockTree::add_block: a new node, with a fresh id, becomes the last child
\* of the root
add_block(tree, block) ==
    LET id == Cardinality(DOMAIN tree.nodes)
        root == get_root(tree)
    IN  [ tree EXCEPT !.nodes =
            MapInsert(MapInsert(@, id, Node(id, block)),
                      root.node_id, [ root EXCEPT !.children = Append(@, id) ]) ]

\* TreeItem::new_leaf and TreeItem::new
TreeItem_new_leaf(identifier, text) ==
    [ identifier |-> identifier, text |-> text, children |-> <<>> ]

TreeItem_new(identifier, text, children) ==
    [ identifier |-> identifier, text |-> text, children |-> children ]

\* Page::new()
InitPage ==
    /\ data = EmptyIndex
    /\ parsedBy = EmptyMap
    /\ lastOp = [ kind |-> "new" ]
    /\ steps = 0
    /\ files = EmptyMap
    /\ ret = None
    /\ iter = <<>>
    /\ stdout = <<>>
    /\ loop = "none"
    /\ model = None
    /\ page = Some([ block_tree |-> BlockTree_new(<<>>) ])
    /\ stack = [ frames |-> <<>>, overflow |-> FALSE ]

\* no call of blocks_as_tree_item is in progress and the thread is alive
Idle == stack.frames = <<>> /\ ~stack.overflow

\* Page::add_block(block)
AddBlock ==
    \E content \in { << "a" >>, << "b" >> } :
        /\ Idle
        /\ Len(get_root(page[1].block_tree).children) < MaxPageBlocks
        /\ page' = Some([ block_tree |-> add_block(page[1].block_tree, CoreBlock(content)) ])
        /\ lastOp' = [ kind |-> "add_block" ]
        /\ UNCHANGED <<data, parsedBy, steps, files, ret, iter, stdout, loop, model, stack>>

\* A call of make_tree_item(page, parent) begins: a frame on the stack, if
\* the stack has room for it
Called(parent) ==
    IF Len(stack.frames) < MaxStack
    THEN stack' = [ stack EXCEPT !.frames = Append(@, [ parent |-> parent, items |-> <<>> ]) ]
    ELSE stack' = [ stack EXCEPT !.overflow = TRUE ]

\* Page::blocks_as_tree_item: make_tree_item(self, self.block_tree.get_root())
BlocksAsTreeItem ==
    /\ Idle
    /\ Called(get_root(page[1].block_tree).node_id)
    /\ ret' = None
    /\ lastOp' = [ kind |-> "blocks_as_tree_item" ]
    /\ UNCHANGED <<data, parsedBy, steps, files, iter, stdout, loop, model, page>>

\* The innermost call of make_tree_item returns item: to blocks_as_tree_item,
\* or into the children_items its caller collects
Returned(item) ==
    IF Len(stack.frames) = 1
    THEN /\ stack' = [ stack EXCEPT !.frames = <<>> ]
         /\ ret' = Some(item)
         /\ lastOp' = [ kind |-> "returned" ]
    ELSE /\ stack' = [ stack EXCEPT !.frames =
                         [ SubSeq(@, 1, Len(@) - 1) EXCEPT ![Len(@) - 1].items =
                             Append(@, item) ] ]
         /\ ret' = ret
         /\ lastOp' = [ kind |-> "make_tree_item" ]

\* One step of the innermost call of make_tree_item(page, parent): it looks
\* at page.block_tree.get_root(), whatever parent is; returns a leaf when the
\* root has no children; else calls itself for the next child of the root, and
\* returns the item of the root once it has an item for every child
MakeTreeItem ==
    /\ stack.frames # <<>>
    /\ ~stack.overflow
    /\ LET root_node == get_root(page[1].block_tree)
           root_node_content == root_node.value[1].content
           children == root_node.children
           children_items == stack.frames[Len(stack.frames)].items
       IN  IF children = <<>>
           THEN Returned(TreeItem_new_leaf(root_node.node_id, root_node_content))
           ELSE IF Len(children_items) < Len(children)
           THEN /\ Called(get_node_by_id(page[1].block_tree,
                                         children[Len(children_items) + 1])[1].node_id)
                /\ ret' = ret
                /\ lastOp' = [ kind |-> "make_tree_item" ]
           ELSE Returned(TreeItem_new(root_node.node_id, root_node_content, children_items))
    /\ UNCHANGED <<data, parsedBy, steps, files, iter, stdout, loop, model, page>>

NextPage == AddBlock \/ BlocksAsTreeItem \/ MakeTreeItem

SpecPage == InitPage /\ [][NextPage]_vars

\* The tree item of a node of the block tree: its id, the content of its
\* block, and the items of its children in order (the tree here has the root
\* and the root's children)
ItemOfNode(tree, id) ==
    [ identifier |-> id,
      text |-> tree.nodes[id].value[1].content,
      children |-> [ k \in DOMAIN tree.nodes[id].children |->
                       [ identifier |-> tree.nodes[id].children[k],
                         text |-> tree.nodes[tree.nodes[id].children[k]].value[1].content,
                         children |-> <<>> ] ] ]

\* C40: Page::blocks_as_tree_item terminates for every page, a page to which
\* blocks were added with add_block included: the call never runs out of
\* stack, and what it returns is the tree item of the root whose descendants
\* are exactly the block tree's nodes, each appearing once.
C40_TreeItemTerminates ==
    /\ ~stack.overflow
    /\ lastOp.kind = "returned" =>
          ret = Some(ItemOfNode(page[1].block_tree, page[1].block_tree.root[1]))

====
